---- MODULE Spec2Model ----
(***************************************************************************)
(* Arm-angle interval engine of the RLL kinematics library                 *)
(* (rll_kinematics/src/arm_angle_intervals.cpp).                           *)
(*                                                                         *)
(* Angles are doubles in the source.  Here an angle is an integer number   *)
(* of grid units, M_PI units making up pi.  Every interval end point the   *)
(* model produces is an even number of units, so that the mid-point of an  *)
(* interval, (upper + lower) / 2, is exact, as it is for doubles.          *)
(***************************************************************************)
EXTENDS Integers, Sequences, FiniteSets, TLC

\* pi, in grid units
M_PI == 40

\* tolerance of the rounded comparisons kIsEqual, kZero, kGreaterThan, kSmallerThan
ZERO_ROUNDING_TOL == 2

\* number of pivot joints (J1, J3, J5, J7) and of hinge joints (J2, J6) looped over
RLL_NUM_JOINTS_P == 4
RLL_NUM_JOINTS_H == 2

\* at most this many joints hit a limit or a singularity for one pose
MaxActiveJoints == 1

Abs(x) == IF x < 0 THEN -x ELSE x

kZero(v) == Abs(v) <= ZERO_ROUNDING_TOL

kIsEqual(lhs, rhs) == kZero(lhs - rhs)

kGreaterThan(lhs, rhs) == lhs - rhs > ZERO_ROUNDING_TOL

kSmallerThan(lhs, rhs) == rhs - lhs > ZERO_ROUNDING_TOL

\* std::signbit of a double that is not a negative zero
signbit(x) == x < 0

(***************************************************************************)
(* RLLKinArmAngleInterval                                                  *)
(***************************************************************************)

\* a default-constructed interval
DefaultInterval == [lower_limit_ |-> 0, upper_limit_ |-> 0, overlap_ |-> FALSE]

setLowerLimit(iv, lower) ==
    [iv EXCEPT !.lower_limit_ = lower,
               !.overlap_ = IF ~iv.overlap_ THEN kIsEqual(lower, -M_PI) ELSE iv.overlap_]

\* setUpperLimit with the flag recomputed from the new upper limit alone
setUpperLimitRecomputed(iv, upper) ==
    [iv EXCEPT !.upper_limit_ = upper, !.overlap_ = kIsEqual(upper, M_PI)]

setUpperLimit(iv, upper) ==
    [iv EXCEPT !.upper_limit_ = upper,
               !.overlap_ = IF ~iv.overlap_ THEN kIsEqual(upper, M_PI) ELSE iv.overlap_]

setLimits(iv, lower, upper) == setUpperLimit(setLowerLimit(iv, lower), upper)

\* RLLKinArmAngleInterval(lower, upper)
NewInterval(lower, upper) == setLimits(DefaultInterval, lower, upper)

lowerLimit(iv) == iv.lower_limit_

upperLimit(iv) == iv.upper_limit_

overlapping(iv) == iv.overlap_

(***************************************************************************)
(* std::sort: any arrangement in nondecreasing key order is a possible     *)
(* outcome, elements with equal keys come in any order (of two identical   *)
(* elements either may come first: the outcome is the same).               *)
(***************************************************************************)

RemoveAt(s, k) == [n \in 1..(Len(s) - 1) |-> IF n < k THEN s[n] ELSE s[n + 1]]

RECURSIVE SortIntervals(_)
\* std::sort with RLLKinArmAngleInterval::operator<  (lower_limit_ < rhs.lower_limit_)
SortIntervals(s) ==
    IF Len(s) = 0 THEN {<<>>}
    ELSE LET firsts == {k \in 1..Len(s) :
                          /\ \A n \in 1..Len(s) : ~(s[n].lower_limit_ < s[k].lower_limit_)
                          /\ \A n \in 1..(k - 1) : s[n] # s[k]}
         IN  UNION {{<<s[k]>> \o t : t \in SortIntervals(RemoveAt(s, k))} : k \in firsts}

RECURSIVE SortLimits(_)
\* std::sort with RLLInvKinIntervalLimit::operator<  (arm_angle_ < rhs.arm_angle_)
SortLimits(s) ==
    IF Len(s) = 0 THEN {<<>>}
    ELSE LET firsts == {k \in 1..Len(s) :
                          /\ \A n \in 1..Len(s) : ~(s[n].arm_angle_ < s[k].arm_angle_)
                          /\ \A n \in 1..(k - 1) : s[n] # s[k]}
         IN  UNION {{<<s[k]>> \o t : t \in SortLimits(RemoveAt(s, k))} : k \in firsts}

(***************************************************************************)
(* RLLInvKinNsIntervals: the pure parts, list in, list out.  Sequences are *)
(* 1-based, the source's vectors 0-based.                                  *)
(***************************************************************************)

RECURSIVE mergeLoopAlwaysSet(_, _, _)
\* the loop of mergeSortedBlockedIntervals taking the upper limit of every interval that does
\* not start a new one, also of an interval that ends before the last merged one does
mergeLoopAlwaysSet(sorted_intervals, blocked, i) ==
    IF i > Len(blocked) THEN sorted_intervals
    ELSE LET back == sorted_intervals[Len(sorted_intervals)]
         IN  IF upperLimit(back) < lowerLimit(blocked[i])
             THEN mergeLoopAlwaysSet(Append(sorted_intervals, blocked[i]), blocked, i + 1)
             ELSE mergeLoopAlwaysSet([sorted_intervals EXCEPT ![Len(sorted_intervals)] =
                                         setUpperLimit(back, upperLimit(blocked[i]))],
                                     blocked, i + 1)

RECURSIVE mergeLoop(_, _, _)
\* the for loop of mergeSortedBlockedIntervals, from index i (1-based) on
mergeLoop(sorted_intervals, blocked, i) ==
    IF i > Len(blocked) THEN sorted_intervals
    ELSE LET back == sorted_intervals[Len(sorted_intervals)]
         IN  IF upperLimit(back) < lowerLimit(blocked[i])
             THEN mergeLoop(Append(sorted_intervals, blocked[i]), blocked, i + 1)
             ELSE IF upperLimit(back) < upperLimit(blocked[i])
             THEN mergeLoop([sorted_intervals EXCEPT ![Len(sorted_intervals)] =
                                setUpperLimit(back, upperLimit(blocked[i]))],
                            blocked, i + 1)
             ELSE mergeLoop(sorted_intervals, blocked, i + 1)

mergeSortedBlockedIntervals(blocked) ==
    IF Len(blocked) = 0 THEN blocked
    ELSE mergeLoop(<<blocked[1]>>, blocked, 2)

RECURSIVE feasibleLoop(_, _, _)
\* the for loop of feasibleIntervalsFromBlocked, from index i (1-based) on
feasibleLoop(feasible, blocked, i) ==
    IF i > Len(blocked) THEN feasible
    ELSE LET blocked_interval == blocked[i]
             f1 == IF Len(feasible) # 0
                   THEN [feasible EXCEPT ![Len(feasible)] =
                            setUpperLimit(feasible[Len(feasible)], lowerLimit(blocked_interval))]
                   ELSE feasible
             f2 == IF upperLimit(blocked_interval) < M_PI
                   THEN Append(f1, NewInterval(upperLimit(blocked_interval), M_PI))
                   ELSE f1
         IN  feasibleLoop(f2, blocked, i + 1)

\* feasibleIntervalsFromBlocked without the interval that starts at -pi
feasibleIntervalsFromBlockedNoLeading(feasible, blocked) ==
    IF Len(blocked) = 0 THEN Append(feasible, NewInterval(-M_PI, M_PI))
    ELSE IF /\ Len(blocked) = 1
            /\ kIsEqual(lowerLimit(blocked[1]), -M_PI)
            /\ kIsEqual(upperLimit(blocked[1]), M_PI)
    THEN feasible
    ELSE feasibleLoop(feasible, blocked, 1)

\* the feasible list after the call, from the list before it and the merged blocked list
feasibleIntervalsFromBlocked(feasible, blocked) ==
    IF Len(blocked) = 0 THEN Append(feasible, NewInterval(-M_PI, M_PI))
    ELSE IF /\ Len(blocked) = 1
            /\ kIsEqual(lowerLimit(blocked[1]), -M_PI)
            /\ kIsEqual(upperLimit(blocked[1]), M_PI)
    THEN feasible
    ELSE LET f0 == IF lowerLimit(blocked[1]) > -M_PI
                   THEN Append(feasible, NewInterval(-M_PI, M_PI))
                   ELSE feasible
         IN  feasibleLoop(f0, blocked, 1)

RECURSIVE determineLoopBothSigns(_, _, _)
\* the loop of determineBlockedIntervals asking for both sign conditions, not for one of them
determineLoopBothSigns(blocked, interval_limits, j) ==
    LET size == Len(interval_limits)
        j_next == (j + 1) % size
        at(n) == interval_limits[n + 1]
    IN  IF j >= size THEN blocked
        ELSE IF /\ signbit(at(j).joint_angle_) = signbit(at(j).joint_derivative_)
                /\ signbit(at(j_next).joint_angle_) # signbit(at(j_next).joint_derivative_)
        THEN IF j = size - 1
             THEN determineLoopBothSigns(
                      Append(Append(blocked, NewInterval(-M_PI, at(0).arm_angle_)),
                             NewInterval(at(j).arm_angle_, M_PI)),
                      interval_limits, j + 1)
             ELSE determineLoopBothSigns(
                      Append(blocked, NewInterval(at(j).arm_angle_, at(j + 1).arm_angle_)),
                      interval_limits, j + 1)
        ELSE determineLoopBothSigns(blocked, interval_limits, j + 1)

RECURSIVE determineLoop(_, _, _)
\* the for loop of determineBlockedIntervals, from index j (0-based, as in the source) on
determineLoop(blocked, interval_limits, j) ==
    LET size == Len(interval_limits)
        j_next == (j + 1) % size
        at(n) == interval_limits[n + 1]
    IN  IF j >= size THEN blocked
        ELSE IF \/ signbit(at(j).joint_angle_) = signbit(at(j).joint_derivative_)
                \/ signbit(at(j_next).joint_angle_) # signbit(at(j_next).joint_derivative_)
        THEN IF j = size - 1
             THEN determineLoop(Append(Append(blocked, NewInterval(-M_PI, at(0).arm_angle_)),
                                       NewInterval(at(j).arm_angle_, M_PI)),
                                interval_limits, j + 1)
             ELSE determineLoop(Append(blocked,
                                       NewInterval(at(j).arm_angle_, at(j + 1).arm_angle_)),
                                interval_limits, j + 1)
        ELSE determineLoop(blocked, interval_limits, j + 1)

\* blocked_intervals_ after the call, from blocked_intervals_ before it
determineBlockedIntervals(blocked, interval_limits) ==
    determineLoop(blocked, interval_limits, 0)

(***************************************************************************)
(* The coefficients object coeffs_ (RLLInvKinCoeffs) is built from the     *)
(* pose and the global configuration.  Its answers for one joint are an    *)
(* input: answer.singular is what pivotSingularity returns, answer.lower   *)
(* and answer.upper what armAngleForJointLimit returns for the two joint   *)
(* limits, with the values of jointAngle and jointDerivative at the two    *)
(* returned arm angles, and answer.joint_angle_test is jointAngle at arm   *)
(* angle 0.                                                                *)
(***************************************************************************)

\* interval_limits after the call
insertLimit(interval_limits, joint_angle, point) ==
    IF kZero(joint_angle - point.joint_angle)
    THEN Append(interval_limits, [arm_angle_ |-> point.arm_angle,
                                  joint_angle_ |-> joint_angle,
                                  joint_derivative_ |-> point.joint_derivative])
    ELSE interval_limits

\* interval_limits as filled by the two armAngleForJointLimit branches
mappedLimits(lower_joint_limit, upper_joint_limit, answer) ==
    LET l0 == <<>>
        l1 == IF answer.lower.found
              THEN insertLimit(insertLimit(l0, lower_joint_limit, answer.lower.arm_angle_lower),
                               lower_joint_limit, answer.lower.arm_angle_upper)
              ELSE l0
    IN  IF answer.upper.found
        THEN insertLimit(insertLimit(l1, upper_joint_limit, answer.upper.arm_angle_lower),
                         upper_joint_limit, answer.upper.arm_angle_upper)
        ELSE l1

\* mapLimitsToArmAngle testing the joint angle at arm angle 0 against the upper limit only
mapLimitsToArmAngleUpperOnly(blocked, lower_joint_limit, upper_joint_limit, answer) ==
    LET interval_limits == mappedLimits(lower_joint_limit, upper_joint_limit, answer)
    IN  IF Len(interval_limits) = 0
        THEN IF kGreaterThan(answer.joint_angle_test, upper_joint_limit)
             THEN {Append(blocked, NewInterval(-M_PI, M_PI))}
             ELSE {blocked}
        ELSE {determineBlockedIntervals(blocked, sorted) : sorted \in SortLimits(interval_limits)}

\* mapLimitsToArmAngle handing a single limit sample on without blocking anything
mapLimitsToArmAngleSkipSingle(blocked, lower_joint_limit, upper_joint_limit, answer) ==
    LET interval_limits == mappedLimits(lower_joint_limit, upper_joint_limit, answer)
    IN  IF Len(interval_limits) = 0
        THEN IF \/ kGreaterThan(answer.joint_angle_test, upper_joint_limit)
                \/ kSmallerThan(answer.joint_angle_test, lower_joint_limit)
             THEN {Append(blocked, NewInterval(-M_PI, M_PI))}
             ELSE {blocked}
        ELSE IF Len(interval_limits) = 1
        THEN {blocked}
        ELSE {determineBlockedIntervals(blocked, sorted) : sorted \in SortLimits(interval_limits)}

\* the possible values of blocked_intervals_ after the call (one per outcome of std::sort)
mapLimitsToArmAngle(blocked, lower_joint_limit, upper_joint_limit, answer) ==
    LET interval_limits == mappedLimits(lower_joint_limit, upper_joint_limit, answer)
    IN  IF Len(interval_limits) = 0
        THEN IF \/ kGreaterThan(answer.joint_angle_test, upper_joint_limit)
                \/ kSmallerThan(answer.joint_angle_test, lower_joint_limit)
             THEN {Append(blocked, NewInterval(-M_PI, M_PI))}
             ELSE {blocked}
        ELSE {determineBlockedIntervals(blocked, sorted) : sorted \in SortLimits(interval_limits)}

\* closestFeasibleArmAngle taking the interval below on equal distance
closestFeasibleArmAngleLowerOnTie(feasible, index, query_arm_angle) ==
    IF index > 0
    THEN LET middle_upper_interval ==
                 (upperLimit(feasible[index + 1]) + lowerLimit(feasible[index + 1])) \div 2
             middle_lower_interval ==
                 (upperLimit(feasible[index]) + lowerLimit(feasible[index])) \div 2
         IN  IF middle_upper_interval - query_arm_angle < query_arm_angle - middle_lower_interval
             THEN middle_upper_interval
             ELSE middle_lower_interval
    ELSE LET middle_first_interval ==
                 (upperLimit(feasible[1]) + lowerLimit(feasible[1])) \div 2
             middle_last_interval ==
                 (upperLimit(feasible[Len(feasible)]) + lowerLimit(feasible[Len(feasible)])) \div 2
         IN  IF index = 0
             THEN IF middle_first_interval - query_arm_angle
                        <= (query_arm_angle + M_PI) + (M_PI - middle_last_interval)
                  THEN middle_first_interval
                  ELSE middle_last_interval
             ELSE IF query_arm_angle - middle_last_interval
                        <= (M_PI - query_arm_angle) + (middle_first_interval + M_PI)
                  THEN middle_last_interval
                  ELSE middle_first_interval

\* closestFeasibleArmAngle measuring every distance along [-pi, pi], never around the seam
closestFeasibleArmAngleNoWrap(feasible, index, query_arm_angle) ==
    IF index > 0
    THEN LET middle_upper_interval ==
                 (upperLimit(feasible[index + 1]) + lowerLimit(feasible[index + 1])) \div 2
             middle_lower_interval ==
                 (upperLimit(feasible[index]) + lowerLimit(feasible[index])) \div 2
         IN  IF middle_upper_interval - query_arm_angle <= query_arm_angle - middle_lower_interval
             THEN middle_upper_interval
             ELSE middle_lower_interval
    ELSE LET middle_first_interval ==
                 (upperLimit(feasible[1]) + lowerLimit(feasible[1])) \div 2
             middle_last_interval ==
                 (upperLimit(feasible[Len(feasible)]) + lowerLimit(feasible[Len(feasible)])) \div 2
         IN  IF index = 0
             THEN IF middle_first_interval - query_arm_angle
                        <= middle_last_interval - query_arm_angle
                  THEN middle_first_interval
                  ELSE middle_last_interval
             ELSE IF query_arm_angle - middle_last_interval
                        <= query_arm_angle - middle_first_interval
                  THEN middle_last_interval
                  ELSE middle_first_interval

\* fallback_arm_angle as set by the call (it always returns ARMANGLE_NOT_IN_SAME_INTERVAL)
closestFeasibleArmAngle(feasible, index, query_arm_angle) ==
    IF index > 0
    THEN LET middle_upper_interval ==
                 (upperLimit(feasible[index + 1]) + lowerLimit(feasible[index + 1])) \div 2
             middle_lower_interval ==
                 (upperLimit(feasible[index]) + lowerLimit(feasible[index])) \div 2
         IN  IF middle_upper_interval - query_arm_angle <= query_arm_angle - middle_lower_interval
             THEN middle_upper_interval
             ELSE middle_lower_interval
    ELSE LET middle_first_interval ==
                 (upperLimit(feasible[1]) + lowerLimit(feasible[1])) \div 2
             middle_last_interval ==
                 (upperLimit(feasible[Len(feasible)]) + lowerLimit(feasible[Len(feasible)])) \div 2
         IN  IF index = 0
             THEN IF middle_first_interval - query_arm_angle
                        <= (query_arm_angle + M_PI) + (M_PI - middle_last_interval)
                  THEN middle_first_interval
                  ELSE middle_last_interval
             ELSE IF query_arm_angle - middle_last_interval
                        <= (M_PI - query_arm_angle) + (middle_first_interval + M_PI)
                  THEN middle_last_interval
                  ELSE middle_first_interval

\* the search loop of intervalForArmAngle: the 0-based index at which it breaks, -1 if it never does
searchIndex(feasible, query_arm_angle) ==
    LET hits == {n \in 1..Len(feasible) : query_arm_angle <= upperLimit(feasible[n])}
    IN  IF hits = {} THEN -1
        ELSE (CHOOSE n \in hits : \A m \in hits : n <= m) - 1

\* what a call returns: its return value and the values it leaves in its in/out arguments
returned(msg, query_arm_angle, current_interval, fallback_arm_angle) ==
    [msg |-> msg, query_arm_angle |-> query_arm_angle,
     current_interval |-> current_interval, fallback_arm_angle |-> fallback_arm_angle]

\* the return for an empty feasible list, under a wrong message
noFeasibleAnswerAsMiss(query_arm_angle, current_interval) ==
    returned("ARMANGLE_NOT_IN_SAME_INTERVAL", query_arm_angle, current_interval, 0)

\* the return for an empty feasible list
noFeasibleAnswer(query_arm_angle, current_interval) ==
    returned("NO_SOLUTION_FOR_ARMANGLE", query_arm_angle, current_interval, 0)

\* interval_found after the search loop, which broke at index (0-based)
intervalFound(feasible, index, query_arm_angle) ==
    /\ index >= 0
    /\ query_arm_angle >= lowerLimit(feasible[index + 1])

\* the search loop assigning the interval it breaks at, found or not
searchedIntervalAlways(feasible, index, query_arm_angle, current_interval) ==
    IF index >= 0 THEN feasible[index + 1] ELSE current_interval

\* *current_interval after the search loop
searchedInterval(feasible, index, query_arm_angle, current_interval) ==
    IF intervalFound(feasible, index, query_arm_angle)
    THEN feasible[index + 1]
    ELSE current_interval

\* the return for a found interval, taking every flagged interval that does not start at
\* -pi for one that ends at pi
foundAnswerByFlag(feasible, query_arm_angle, current_interval, fallback_arm_angle) ==
    IF \/ ~overlapping(current_interval)
       \/ (kIsEqual(lowerLimit(current_interval), -M_PI)
              /\ kIsEqual(upperLimit(current_interval), M_PI))
    THEN returned("SUCCESS", query_arm_angle, current_interval, fallback_arm_angle)
    ELSE IF kIsEqual(lowerLimit(current_interval), -M_PI)
    THEN returned("SUCCESS",
                IF query_arm_angle < upperLimit(current_interval)
                THEN query_arm_angle + 2 * M_PI ELSE query_arm_angle,
                setLowerLimit(setUpperLimit(current_interval,
                                            upperLimit(current_interval) + 2 * M_PI),
                              lowerLimit(feasible[Len(feasible)])),
                fallback_arm_angle)
    ELSE returned("SUCCESS",
                IF query_arm_angle < upperLimit(feasible[1])
                THEN query_arm_angle + 2 * M_PI ELSE query_arm_angle,
                setUpperLimit(current_interval, 2 * M_PI + upperLimit(feasible[1])),
                fallback_arm_angle)

\* the return for a found interval, current_interval being the copy of it
foundAnswer(feasible, query_arm_angle, current_interval, fallback_arm_angle) ==
    IF \/ ~overlapping(current_interval)
       \/ (kIsEqual(lowerLimit(current_interval), -M_PI)
              /\ kIsEqual(upperLimit(current_interval), M_PI))
    THEN returned("SUCCESS", query_arm_angle, current_interval, fallback_arm_angle)
    ELSE IF kIsEqual(lowerLimit(current_interval), -M_PI)
    THEN returned("SUCCESS",
                IF query_arm_angle < upperLimit(current_interval)
                THEN query_arm_angle + 2 * M_PI ELSE query_arm_angle,
                setLowerLimit(setUpperLimit(current_interval,
                                            upperLimit(current_interval) + 2 * M_PI),
                              lowerLimit(feasible[Len(feasible)])),
                fallback_arm_angle)
    ELSE IF kIsEqual(upperLimit(current_interval), M_PI)
    THEN returned("SUCCESS",
                IF query_arm_angle < upperLimit(feasible[1])
                THEN query_arm_angle + 2 * M_PI ELSE query_arm_angle,
                setUpperLimit(current_interval, 2 * M_PI + upperLimit(feasible[1])),
                fallback_arm_angle)
    ELSE returned("SUCCESS", query_arm_angle, current_interval, fallback_arm_angle)

\* the call's return value and the values it leaves in its three in/out arguments
intervalForArmAngle(feasible, query_arm_angle, current_interval, fallback_arm_angle) ==
    LET index == searchIndex(feasible, query_arm_angle)
        searched == searchedInterval(feasible, index, query_arm_angle, current_interval)
    IN  IF Len(feasible) = 0
        THEN noFeasibleAnswer(query_arm_angle, current_interval)
        ELSE IF intervalFound(feasible, index, query_arm_angle)
        THEN foundAnswer(feasible, query_arm_angle, searched, fallback_arm_angle)
        ELSE returned("ARMANGLE_NOT_IN_SAME_INTERVAL", query_arm_angle, searched,
                    closestFeasibleArmAngle(feasible, index, query_arm_angle))

(***************************************************************************)
(* Inputs                                                                  *)
(***************************************************************************)

\* the joint limits handed to computeFeasibleIntervals, symmetric for every joint
lower_joint_limits == [j \in 0..6 |-> -30]

upper_joint_limits == [j \in 0..6 |-> 30]

\* arm angles at which a joint can reach its lower limit, and its upper limit: a joint has
\* one angle at one arm angle, so the two sets are disjoint
LowerLimitAngles == {-M_PI, -30}

UpperLimitAngles == {10, 24}

SampleAngles(limit) == IF limit < 0 THEN LowerLimitAngles ELSE UpperLimitAngles

\* arm angles of a pivot singularity
SingularAngles == {-18, 18}

\* what jointAngle gives at arm angle 0: below the limits, within them, above them, and
\* beyond a limit by no more than the tolerance
TestAngles == {-34, -32, 0, 32, 34}

\* joint angles that match neither limit
OffLimitAngles == {0}

NoPoint == [arm_angle |-> 0, joint_angle |-> 0, joint_derivative |-> 1]

NoCrossing == [found |-> FALSE, arm_angle_lower |-> NoPoint, arm_angle_upper |-> NoPoint]

NoSingularity == [found |-> FALSE, psi_singular |-> 0]

\* a returned arm angle with jointAngle and jointDerivative there
CrossPoints(limit) ==
    [arm_angle : SampleAngles(limit), joint_angle : {limit}, joint_derivative : {-1, 1}]
    \cup [arm_angle : SampleAngles(limit), joint_angle : OffLimitAngles, joint_derivative : {1}]

CrossAnswers(limit) ==
    {NoCrossing} \cup
    {[found |-> TRUE, arm_angle_lower |-> p, arm_angle_upper |-> q] :
        <<p, q>> \in {pq \in CrossPoints(limit) \X CrossPoints(limit) :
                         pq[1].arm_angle < pq[2].arm_angle}}

SingularAnswers ==
    {NoSingularity} \cup {[found |-> TRUE, psi_singular |-> psi] : psi \in SingularAngles}

\* the answers of coeffs_ for joint j; jointAngle at 0 is only read when no limit sample is inserted
JointAnswers(j, singular) ==
    {a \in [singular : singular,
            lower : CrossAnswers(lower_joint_limits[j]),
            upper : CrossAnswers(upper_joint_limits[j]),
            joint_angle_test : TestAngles] :
        a.joint_angle_test # 0 =>
            Len(mappedLimits(lower_joint_limits[j], upper_joint_limits[j], a)) = 0}

\* the joint neither reaches a limit nor is singular
Quiet(a) ==
    /\ ~a.singular.found
    /\ ~a.lower.found
    /\ ~a.upper.found
    /\ a.joint_angle_test = 0

PivotAnswers == [j \in {0, 2, 4, 6} |-> {a \in JointAnswers(j, SingularAnswers) : ~Quiet(a)}]

HingeAnswers == [j \in {1, 5} |-> {a \in JointAnswers(j, {NoSingularity}) : ~Quiet(a)}]

QuietAnswer == [singular |-> NoSingularity, lower |-> NoCrossing, upper |-> NoCrossing,
                joint_angle_test |-> 0]

\* the joints coeffs_ is asked about: pivot joints 0, 2, 4, 6 and hinge joints 1, 5
CoefficientJoints == {0, 1, 2, 4, 5, 6}

\* the pose in which no joint reaches a limit or is singular
QuietPose == [j \in CoefficientJoints |-> QuietAnswer]

\* the joints that reach a limit or are singular in the poses of SpecPose: the first pivot
\* joint and the first hinge joint, the code treating all joints of a kind alike
PoseJoints == {0, 1}

ActiveAnswers(j) == IF j \in DOMAIN PivotAnswers THEN PivotAnswers[j] ELSE HingeAnswers[j]

\* what coeffs_ can answer for a joint of PoseJoints
PoseAnswers(j) == {QuietAnswer} \cup ActiveAnswers(j)

\* the answers of coeffs_ for the joints of PoseJoints, at most MaxActiveJoints of them at a
\* limit or singular
PoseJointAnswers ==
    {g \in [PoseJoints -> UNION {PoseAnswers(j) : j \in PoseJoints}] :
        /\ \A j \in PoseJoints : g[j] \in PoseAnswers(j)
        /\ Cardinality({j \in PoseJoints : ~Quiet(g[j])}) <= MaxActiveJoints}

\* the answers of coeffs_ for a pose, the joints outside PoseJoints being quiet
Pose(g) == [j \in CoefficientJoints |-> IF j \in PoseJoints THEN g[j] ELSE QuietAnswer]

\* the arm angles intervalForArmAngle is asked about
Queries == (-M_PI)..M_PI

\* the caller's current_interval and fallback_arm_angle before the call
CallerLocals == {[current_interval |-> DefaultInterval, fallback_arm_angle |-> 0],
                 [current_interval |-> NewInterval(-10, 10), fallback_arm_angle |-> 7]}

\* the values the setters of an interval are called with
LimitValues == {-M_PI - 2, -M_PI, -M_PI + 2, -20, 0, 20, M_PI - 2, M_PI, M_PI + 2}

(***************************************************************************)
(* State                                                                   *)
(***************************************************************************)

VARIABLES
    pc,                  \* "pivot", "hinge": the loop computeFeasibleIntervals is in; "done": it
                         \* has returned; "queried": intervalForArmAngle has been called
    i,                   \* loop variable of the running loop
    active,              \* joints so far that reached a limit or are singular
    blocked_intervals_,  \* RLLInvKinNsIntervals::blocked_intervals_
    feasible_intervals_, \* RLLInvKinNsIntervals::feasible_intervals_
    compute_msg,         \* return value of computeFeasibleIntervals, "none" before it returns
    call,                \* the arguments of the last intervalForArmAngle call, as passed in
    ret,                 \* its return value and the arguments as it left them
    interval,            \* an RLLKinArmAngleInterval of its own, for the setters
    coeffs_,             \* the answers of RLLInvKinNsIntervals::coeffs_ for the pose, fixed under
                         \* SpecPose; under Spec each answer is an input drawn when it is read
    calls,               \* the calls of computeFeasibleIntervals that have returned
    first_call,          \* blocked_intervals_ and feasible_intervals_ as the first call left them
    srv,                 \* the call made to the move interface: its name, its request, its return
    move_group,          \* manip_move_group_: how often the joint values were read, a plan was
                         \* asked for, a trajectory was executed
    arm_angles,          \* the vector interpolateArmangleLinear filled in moveLinArmangle
    ik_arm_angles,       \* the arm angles getPositionIKarmangle was called with, in call order
    ik_result,           \* what callRLLIK returned to poseGoalInCollision
    colliding,           \* the joint values at which the robot is in collision
    goal_joint_values,   \* *goal_joint_values of poseGoalInCollision
    collision_tests,     \* the joint values stateInCollision was called with, in call order
    frame,               \* the running call of the move interface: its name, its position, its
                         \* arguments and local variables, and its return value once it returned
    log,                 \* the calls it made to MoveIt, the kinematics plugin, the planning
                         \* scene and iface_state_, in call order
    iface_state_         \* RLLMoveIfaceServices::iface_state_: whether it is in the error state

intervals == <<pc, i, active, blocked_intervals_, feasible_intervals_, compute_msg, call, ret,
               interval, coeffs_, calls, first_call>>

planning == <<srv, move_group, arm_angles, ik_arm_angles, ik_result, colliding,
              goal_joint_values, collision_tests>>

services == <<frame, log, iface_state_>>

vars == <<intervals, planning, services>>

NoCall == [query_arm_angle |-> 0, current_interval |-> DefaultInterval,
           fallback_arm_angle |-> 0]

NoReturn == [msg |-> "none", query_arm_angle |-> 0, current_interval |-> DefaultInterval,
             fallback_arm_angle |-> 0]

NoFirstCall == [blocked_intervals_ |-> <<>>, feasible_intervals_ |-> <<>>]

NoService == [name |-> "none", arm_angle |-> 0, direction |-> 0, ret |-> "none"]

NoIK == [error |-> FALSE, ik_solutions |-> <<>>, global_configuration_mode |-> "none"]

NoFrame == [name |-> "none", pc |-> "none"]

\* std::vector<double> joints(7), all zero
ZeroJoints == 0

\* a newly constructed RLLInvKinNsIntervals, no call made yet
Constructed ==
    /\ pc = "pivot"
    /\ i = 0
    /\ active = 0
    /\ blocked_intervals_ = <<>>
    /\ feasible_intervals_ = <<>>
    /\ compute_msg = "none"
    /\ call = NoCall
    /\ ret = NoReturn
    /\ interval = DefaultInterval
    /\ calls = 0
    /\ first_call = NoFirstCall
    /\ srv = NoService
    /\ move_group = [seeded |-> 0, planned |-> 0, executed |-> 0]
    /\ arm_angles = <<>>
    /\ ik_arm_angles = <<>>
    /\ ik_result = NoIK
    /\ colliding = {}
    /\ goal_joint_values = ZeroJoints
    /\ collision_tests = <<>>
    /\ frame = NoFrame
    /\ log = <<>>
    /\ iface_state_ = [error_state |-> FALSE]

Init ==
    /\ Constructed
    /\ coeffs_ = QuietPose

(***************************************************************************)
(* computeFeasibleIntervals, one loop iteration per step; the last         *)
(* iteration of the hinge loop runs on through std::sort,                  *)
(* mergeSortedBlockedIntervals and feasibleIntervalsFromBlocked to the     *)
(* return.                                                                 *)
(***************************************************************************)

MARGIN_SINGULARITY == 10 * ZERO_ROUNDING_TOL

\* the singularity test blocking the arm angle of the singularity alone, without a margin
singularityBlockedNoMargin(blocked, singular) ==
    IF singular.found
    THEN Append(blocked, NewInterval(singular.psi_singular, singular.psi_singular))
    ELSE blocked

\* blocked_intervals_ after the singularity test of a pivot iteration
singularityBlocked(blocked, singular) ==
    IF singular.found
    THEN Append(blocked, NewInterval(singular.psi_singular - MARGIN_SINGULARITY,
                                     singular.psi_singular + MARGIN_SINGULARITY))
    ELSE blocked

\* the possible values of blocked_intervals_ after iteration i of the pivot loop
pivotIteration(blocked, n, answer) ==
    mapLimitsToArmAngle(singularityBlocked(blocked, answer.singular),
                        lower_joint_limits[2 * n], upper_joint_limits[2 * n], answer)

\* the possible values of blocked_intervals_ after iteration i of the hinge loop
hingeIteration(blocked, n, answer) ==
    mapLimitsToArmAngle(blocked, lower_joint_limits[4 * n + 1], upper_joint_limits[4 * n + 1],
                        answer)

\* the possible <<blocked_intervals_, feasible_intervals_>> after lines 347 to 349
sortMergeFeasible(blocked, feasible) ==
    {<<mergeSortedBlockedIntervals(sorted),
       feasibleIntervalsFromBlocked(feasible, mergeSortedBlockedIntervals(sorted))>> :
        sorted \in SortIntervals(blocked)}

PivotStep(answer) ==
    /\ \E b \in pivotIteration(blocked_intervals_, i, answer) : blocked_intervals_' = b
    /\ IF i + 1 < RLL_NUM_JOINTS_P
       THEN /\ i' = i + 1
            /\ pc' = pc
       ELSE /\ i' = 0
            /\ pc' = "hinge"
    /\ UNCHANGED <<feasible_intervals_, compute_msg, call, ret, interval, coeffs_, calls,
                   first_call, planning, services>>

PivotJoint ==
    /\ pc = "pivot"
    /\ \/ /\ PivotStep(QuietAnswer)
          /\ active' = active
       \/ /\ active < MaxActiveJoints
          /\ \E answer \in PivotAnswers[2 * i] : PivotStep(answer)
          /\ active' = active + 1

HingeStep(answer) ==
    /\ \E b \in hingeIteration(blocked_intervals_, i, answer) :
          IF i + 1 < RLL_NUM_JOINTS_H
          THEN /\ blocked_intervals_' = b
               /\ i' = i + 1
               /\ UNCHANGED <<pc, feasible_intervals_, compute_msg, calls, first_call>>
          ELSE /\ \E bf \in sortMergeFeasible(b, feasible_intervals_) :
                     /\ blocked_intervals_' = bf[1]
                     /\ feasible_intervals_' = bf[2]
                     /\ first_call' = IF calls = 0
                                      THEN [blocked_intervals_ |-> bf[1],
                                            feasible_intervals_ |-> bf[2]]
                                      ELSE first_call
               /\ compute_msg' = "SUCCESS"
               /\ pc' = "done"
               /\ i' = i + 1
               /\ calls' = calls + 1
    /\ UNCHANGED <<call, ret, interval, coeffs_, planning, services>>

HingeJoint ==
    /\ pc = "hinge"
    /\ \/ /\ HingeStep(QuietAnswer)
          /\ active' = active
       \/ /\ active < MaxActiveJoints
          /\ \E answer \in HingeAnswers[4 * i + 1] : HingeStep(answer)
          /\ active' = active + 1

\* a caller asks for the interval of an arm angle
IntervalForArmAngle ==
    /\ pc = "done"
    /\ \E q \in Queries, locals \in CallerLocals :
          /\ call' = [query_arm_angle |-> q,
                      current_interval |-> locals.current_interval,
                      fallback_arm_angle |-> locals.fallback_arm_angle]
          /\ ret' = intervalForArmAngle(feasible_intervals_, q, locals.current_interval,
                                        locals.fallback_arm_angle)
    /\ pc' = "queried"
    /\ UNCHANGED <<i, active, blocked_intervals_, feasible_intervals_, compute_msg,
                   interval, coeffs_, calls, first_call, planning, services>>

Next == PivotJoint \/ HingeJoint \/ IntervalForArmAngle

Spec == Init /\ [][Next]_vars

(***************************************************************************)
(* computeFeasibleIntervals for a pose whose coefficients are fixed, then  *)
(* called a second time on the same object.                                *)
(***************************************************************************)

InitPose ==
    /\ Constructed
    /\ \E g \in PoseJointAnswers : coeffs_ = Pose(g)

PosePivotJoint ==
    /\ pc = "pivot"
    /\ PivotStep(coeffs_[2 * i])
    /\ active' = active

PoseHingeJoint ==
    /\ pc = "hinge"
    /\ HingeStep(coeffs_[4 * i + 1])
    /\ active' = active

\* the caller calls computeFeasibleIntervals again, with the same joint limits
SecondCall ==
    /\ pc = "done"
    /\ calls = 1
    /\ pc' = "pivot"
    /\ i' = 0
    /\ compute_msg' = "none"
    /\ UNCHANGED <<active, blocked_intervals_, feasible_intervals_, call, ret, interval,
                   coeffs_, calls, first_call, planning, services>>

NextPose == PosePivotJoint \/ PoseHingeJoint \/ SecondCall

SpecPose == InitPose /\ [][NextPose]_vars

(***************************************************************************)
(* The setters of one RLLKinArmAngleInterval, called in any order.         *)
(***************************************************************************)

engine == <<pc, i, active, blocked_intervals_, feasible_intervals_, compute_msg, call, ret,
            coeffs_, calls, first_call, planning, services>>

SetLimits ==
    /\ \E lower \in LimitValues, upper \in LimitValues :
          interval' = setLimits(interval, lower, upper)
    /\ UNCHANGED engine

SetLowerLimit ==
    /\ \E lower \in LimitValues : interval' = setLowerLimit(interval, lower)
    /\ UNCHANGED engine

SetUpperLimit ==
    /\ \E upper \in LimitValues : interval' = setUpperLimit(interval, upper)
    /\ UNCHANGED engine

NextInterval == SetLimits \/ SetLowerLimit \/ SetUpperLimit

SpecInterval == Init /\ [][NextInterval]_vars

(***************************************************************************)
(* The move interface (rll_move/src/move_iface_planning.cpp): the handlers *)
(* movePTPArmangle and moveLinArmangle and the helper poseGoalInCollision. *)
(* What MoveIt, the planning scene and the kinematics plugin answer is an  *)
(* input.  An arm angle computed by a division is kept as the fraction     *)
(* num/den of grid units, so that no rounding enters.                      *)
(***************************************************************************)

LINEAR_MIN_STEPS_FOR_JUMP_THRESH == 10

\* the arm angle a of the grid as a fraction
Whole(a) == [num |-> a, den |-> 1]

\* armangleInRange testing the upper end only
armangleInRangeUpperOnly(arm_angle) == ~(arm_angle > M_PI)

armangleInRange(arm_angle) == ~(arm_angle < -M_PI \/ arm_angle > M_PI)

\* floor of the distance over DEFAULT_ROTATION_EEF_STEP, which is pi/180
numStepsArmAngle(start, end) ==
    IF end < start
    THEN (180 * (2 * M_PI + end - start)) \div M_PI
    ELSE (180 * (end - start)) \div M_PI

\* step_size_arm_angle times (n - 1)
stepSizeArmAngle(start, end, dir) ==
    IF dir = 1 /\ end < start
    THEN 2 * M_PI + end - start
    ELSE IF dir = -1 /\ end > start
    THEN -2 * M_PI + end - start
    ELSE end - start

\* *arm_angles after the call: start + i * step_size_arm_angle for i = 0 .. n-1
interpolateArmangleLinear(start, end, dir, n) ==
    [k \in 1..n |-> [num |-> start * (n - 1) + (k - 1) * stepSizeArmAngle(start, end, dir),
                     den |-> n - 1]]

Max3(a, b, c) ==
    IF a >= b /\ a >= c THEN a ELSE IF b >= c THEN b ELSE c

\* the return value and the number of waypoints of interpolatePosesLinear
interpolatePosesLinear(translation_steps, rotation_steps, steps_arm_angle) ==
    LET steps == Max3(translation_steps, steps_arm_angle, rotation_steps) + 1
    IN  IF steps < LINEAR_MIN_STEPS_FOR_JUMP_THRESH
        THEN [ret |-> "TOO_FEW_WAYPOINTS", size |-> 0]
        ELSE [ret |-> "SUCCESS", size |-> steps + 1]

\* getPathIK with arm angles: the arm angles handed to getPositionIKarmangle, and whether
\* every call succeeded; the call for waypoint ik_failure (0-based, 0 for none) fails
getPathIK(size, waypoints_arm_angles, ik_failure) ==
    IF size # Len(waypoints_arm_angles)
    THEN [called |-> <<>>, complete |-> FALSE, started |-> FALSE]
    ELSE LET last == IF ik_failure \in 1..(size - 1) THEN ik_failure ELSE size - 1
         IN  [called |-> [k \in 1..last |-> waypoints_arm_angles[k + 1]],
              complete |-> ~(ik_failure \in 1..(size - 1)),
              started |-> TRUE]

\* the return value of computeLinearPathArmangle; jump is what testJointSpaceJump returns:
\* "one", "part" (strictly between 0 and 1) or "zero"
computeLinearPathArmangle(path, jump) ==
    IF ~path.started \/ jump = "zero"
    THEN "MOVEIT_PLANNING_FAILED"
    ELSE IF ~path.complete \/ jump = "part"
    THEN "ONLY_PARTIAL_PATH_PLANNED"
    ELSE "SUCCESS"

\* what happens to a trajectory handed to runLinearTrajectory, or to runPTPTrajectory once
\* the plan is there: the return value and whether move_group->execute was called
TrajectoryRuns ==
    [ret : {"TOO_FEW_WAYPOINTS", "GOAL_TOO_CLOSE_TO_START", "GOAL_IN_COLLISION",
            "TRAJECTORY_MODIFICATION_FAILED"},
     executed : {FALSE}]
    \cup [ret : {"EXECUTION_FAILED", "SUCCESS"}, executed : {TRUE}]

\* runPTPTrajectory: the return value and the move group after the call
runPTPTrajectory(group, plan_found, run) ==
    IF ~plan_found
    THEN [ret |-> "MOVEIT_PLANNING_FAILED",
          move_group |-> [group EXCEPT !.planned = @ + 1]]
    ELSE [ret |-> run.ret,
          move_group |-> [group EXCEPT !.planned = @ + 1,
                                       !.executed = IF run.executed THEN @ + 1 ELSE @]]

\* runLinearTrajectory: the return value and the move group after the call
runLinearTrajectory(group, run) ==
    [ret |-> run.ret,
     move_group |-> [group EXCEPT !.executed = IF run.executed THEN @ + 1 ELSE @]]

\* movePTPArmangle: its return value, the move group and the arm angles the IK was called
\* with, after the call
movePTPArmangle(arm_angle, group, called, ik_success, target_set, plan_found, run) ==
    IF ~armangleInRange(arm_angle)
    THEN [ret |-> "INVALID_INPUT", move_group |-> group, ik_arm_angles |-> called]
    ELSE LET seeded == [group EXCEPT !.seeded = @ + 1]
             asked == Append(called, Whole(arm_angle))
         IN  IF ~ik_success
             THEN [ret |-> "INVALID_TARGET_POSE", move_group |-> seeded,
                   ik_arm_angles |-> asked]
             ELSE IF ~target_set
             THEN [ret |-> "JOINT_VALUES_OUT_OF_RANGE", move_group |-> seeded,
                   ik_arm_angles |-> asked]
             ELSE [ret |-> runPTPTrajectory(seeded, plan_found, run).ret,
                   move_group |-> runPTPTrajectory(seeded, plan_found, run).move_group,
                   ik_arm_angles |-> asked]

\* moveLinArmangle: its return value, the move group, its vector arm_angles and the arm
\* angles the IK was called with, after the call
moveLinArmangle(arm_angle_goal, dir, group, called, arm_angle_start, translation_steps, rotation_steps, ik_failure, jump, path_valid, run) ==
    LET seeded == [group EXCEPT !.seeded = @ + 1]
        steps_arm_angle == numStepsArmAngle(arm_angle_start, arm_angle_goal)
        waypoints == interpolatePosesLinear(translation_steps, rotation_steps, steps_arm_angle)
        angles == interpolateArmangleLinear(arm_angle_start, arm_angle_goal, dir, waypoints.size)
        path == getPathIK(waypoints.size, angles, ik_failure)
        error_code == computeLinearPathArmangle(path, jump)
    IN  IF ~armangleInRange(arm_angle_goal)
        THEN [ret |-> "INVALID_INPUT", move_group |-> group, arm_angles |-> <<>>,
              ik_arm_angles |-> called]
        ELSE IF waypoints.ret # "SUCCESS"
        THEN [ret |-> waypoints.ret, move_group |-> seeded, arm_angles |-> <<>>,
              ik_arm_angles |-> called]
        ELSE IF error_code # "SUCCESS"
        THEN [ret |-> error_code, move_group |-> seeded, arm_angles |-> angles,
              ik_arm_angles |-> called \o path.called]
        ELSE IF ~path_valid
        THEN [ret |-> "ONLY_PARTIAL_PATH_PLANNED", move_group |-> seeded,
              arm_angles |-> angles, ik_arm_angles |-> called \o path.called]
        ELSE [ret |-> runLinearTrajectory(seeded, run).ret,
              move_group |-> runLinearTrajectory(seeded, run).move_group,
              arm_angles |-> angles, ik_arm_angles |-> called \o path.called]

RECURSIVE collisionLoopStopAtFirst(_, _, _, _, _)
\* the loop of poseGoalInCollision giving up at the first solution that is in collision
collisionLoopStopAtFirst(ik_solutions, in_collision, n, goal, tests) ==
    IF n > Len(ik_solutions)
    THEN [ret |-> "GOAL_IN_COLLISION", goal_joint_values |-> goal, collision_tests |-> tests]
    ELSE IF ik_solutions[n] \notin in_collision
    THEN [ret |-> "SUCCESS", goal_joint_values |-> ik_solutions[n],
          collision_tests |-> Append(tests, ik_solutions[n])]
    ELSE [ret |-> "GOAL_IN_COLLISION", goal_joint_values |-> ik_solutions[n],
          collision_tests |-> Append(tests, ik_solutions[n])]

RECURSIVE collisionLoop(_, _, _, _, _)
\* the for loop of poseGoalInCollision, from index n (1-based) on
collisionLoop(ik_solutions, in_collision, n, goal, tests) ==
    IF n > Len(ik_solutions)
    THEN [ret |-> "GOAL_IN_COLLISION", goal_joint_values |-> goal, collision_tests |-> tests]
    ELSE IF ik_solutions[n] \notin in_collision
    THEN [ret |-> "SUCCESS", goal_joint_values |-> ik_solutions[n],
          collision_tests |-> Append(tests, ik_solutions[n])]
    ELSE collisionLoop(ik_solutions, in_collision, n + 1, ik_solutions[n],
                       Append(tests, ik_solutions[n]))

\* poseGoalInCollision: its return value, *goal_joint_values and the states tested for
\* collision, after the call
poseGoalInCollision(result, in_collision, goal, tests) ==
    IF result.error
    THEN [ret |-> "NO_IK_SOLUTION_FOUND", goal_joint_values |-> goal,
          collision_tests |-> tests]
    ELSE collisionLoop(result.ik_solutions, in_collision, 1, goal, tests)

\* the arm angles a request can ask for: in [-pi, pi], at its ends, and outside
ArmAngleRequests == {-M_PI - 20, -M_PI - 1, -M_PI, 0, M_PI, M_PI + 1, M_PI + 20}

\* req.direction
Directions == {-1, 0, 1}

\* the arm angle getPositionFK reports for the current joint values
StartArmAngles == {-M_PI, -20, 20, M_PI}

\* steps for the translation and for the rotation of the end effector
PoseSteps == {0, 12}

\* the waypoint whose IK call fails, 0 for none
MaxIKFailure == 2

\* the joint value vectors the IK can return, by name
MaxSolutions == 3

Solutions == 1..MaxSolutions

RECURSIVE SolutionLists(_)
\* the lists of at most n solutions, no solution twice
SolutionLists(n) ==
    IF n = 0 THEN {<<>>}
    ELSE LET shorter == SolutionLists(n - 1)
         IN  shorter \cup {Append(l, x) : l \in {m \in shorter : Len(m) = n - 1},
                                          x \in Solutions}

IKResults == [error : BOOLEAN, ik_solutions : {l \in SolutionLists(MaxSolutions) :
                                                 \A a, b \in 1..Len(l) : l[a] = l[b] => a = b}]

MovePTPArmangle ==
    /\ srv.name = "none"
    /\ \E arm_angle \in ArmAngleRequests, ik_success \in BOOLEAN, target_set \in BOOLEAN,
          plan_found \in BOOLEAN, run \in TrajectoryRuns :
          LET out == movePTPArmangle(arm_angle, move_group, ik_arm_angles, ik_success,
                                     target_set, plan_found, run)
          IN  /\ srv' = [name |-> "movePTPArmangle", arm_angle |-> arm_angle,
                         direction |-> 0, ret |-> out.ret]
              /\ move_group' = out.move_group
              /\ ik_arm_angles' = out.ik_arm_angles
    /\ UNCHANGED <<arm_angles, ik_result, colliding, goal_joint_values, collision_tests,
                   intervals, services>>

MoveLinArmangle ==
    /\ srv.name = "none"
    /\ \E arm_angle \in ArmAngleRequests, dir \in Directions, start \in StartArmAngles,
          translation_steps \in PoseSteps, rotation_steps \in PoseSteps,
          ik_failure \in 0..MaxIKFailure, jump \in {"one", "part", "zero"},
          path_valid \in BOOLEAN, run \in TrajectoryRuns :
          LET out == moveLinArmangle(arm_angle, dir, move_group, ik_arm_angles, start,
                                     translation_steps, rotation_steps, ik_failure, jump,
                                     path_valid, run)
          IN  /\ srv' = [name |-> "moveLinArmangle", arm_angle |-> arm_angle,
                         direction |-> dir, ret |-> out.ret]
              /\ move_group' = out.move_group
              /\ arm_angles' = out.arm_angles
              /\ ik_arm_angles' = out.ik_arm_angles
    /\ UNCHANGED <<ik_result, colliding, goal_joint_values, collision_tests, intervals, services>>

PoseGoalInCollision ==
    /\ srv.name = "none"
    /\ \E result \in IKResults, in_collision \in SUBSET Solutions :
          LET out == poseGoalInCollision(result, in_collision, goal_joint_values,
                                         collision_tests)
          IN  /\ ik_result' = [error |-> result.error, ik_solutions |-> result.ik_solutions,
                                global_configuration_mode |-> "RETURN_ALL_GLOBAL_CONFIGS"]
              /\ colliding' = in_collision
              /\ goal_joint_values' = out.goal_joint_values
              /\ collision_tests' = out.collision_tests
              /\ srv' = [name |-> "poseGoalInCollision", arm_angle |-> 0, direction |-> 0,
                         ret |-> out.ret]
    /\ UNCHANGED <<move_group, arm_angles, ik_arm_angles, intervals, services>>

NextMove == MovePTPArmangle \/ MoveLinArmangle \/ PoseGoalInCollision

SpecMove == Init /\ [][NextMove]_vars

(***************************************************************************)
(* getPathIK for pose waypoints, one loop iteration at a time.  What       *)
(* callRLLIK answers for a waypoint is an input: an error, or a solution   *)
(* list whose front is taken.                                              *)
(***************************************************************************)

\* waypoints_pose.size()
MaxWaypoints == 4

\* ik_seed_state
InitialSeeds == {ZeroJoints, 1}

\* seed_state with the older solution first
seedStateOlderFirst(seed_tmp_1, seed_tmp_2) == <<seed_tmp_2, seed_tmp_1>>

\* seed_state after clear() and the two emplace_back
seedState(seed_tmp_1, seed_tmp_2) == <<seed_tmp_1, seed_tmp_2>>

\* what callRLLIK answers: result.error() and ik_solutions.front()
PathIKAnswers == [error : {TRUE}, sol : {ZeroJoints}] \cup [error : {FALSE}, sol : Solutions]

\* the call, up to the first test of the loop condition
GetPathIKCall ==
    /\ frame = NoFrame
    /\ \E size \in 0..MaxWaypoints, ik_seed_state \in InitialSeeds :
          frame' = [name |-> "getPathIK", pc |-> "loop", size |-> size,
                    ik_seed_state |-> ik_seed_state, i |-> 1,
                    seed_tmp_1 |-> ik_seed_state, seed_tmp_2 |-> ik_seed_state,
                    path |-> <<ik_seed_state>>,
                    last_valid_percentage |-> [num |-> 0, den |-> 0]]
    /\ UNCHANGED <<log, iface_state_, intervals, planning>>

\* one iteration of the loop
GetPathIKWaypoint ==
    /\ frame.name = "getPathIK"
    /\ frame.pc = "loop"
    /\ frame.i < frame.size
    /\ \E result \in PathIKAnswers :
          /\ log' = Append(log, [call |-> "callRLLIK", waypoint |-> frame.i,
                                 seed_state |-> seedState(frame.seed_tmp_1, frame.seed_tmp_2),
                                 error |-> result.error, sol |-> result.sol])
          /\ IF result.error
             THEN frame' = [frame EXCEPT !.pc = "done",
                                         !.last_valid_percentage =
                                             [num |-> frame.i, den |-> frame.size]]
             ELSE frame' = [frame EXCEPT !.seed_tmp_2 = frame.seed_tmp_1,
                                         !.seed_tmp_1 = result.sol,
                                         !.path = Append(@, result.sol),
                                         !.i = @ + 1]
    /\ UNCHANGED <<iface_state_, intervals, planning>>

\* the loop condition fails: every waypoint has a solution
GetPathIKReturn ==
    /\ frame.name = "getPathIK"
    /\ frame.pc = "loop"
    /\ ~(frame.i < frame.size)
    /\ frame' = [frame EXCEPT !.pc = "done",
                              !.last_valid_percentage = [num |-> 1, den |-> 1]]
    /\ UNCHANGED <<log, iface_state_, intervals, planning>>

NextPath == GetPathIKCall \/ GetPathIKWaypoint \/ GetPathIKReturn

SpecPath == Init /\ [][NextPath]_vars

(***************************************************************************)
(* runPTPTrajectory and execute, one step at a time.  What MoveIt answers, *)
(* what the trajectory looks like and where the joints are at each poll    *)
(* are inputs.  Time is counted in cycles of the 200 Hz poll rate and the  *)
(* joints by their distance from the last trajectory point.                *)
(***************************************************************************)

\* RLLErrorCode::failed()
failed(error_code) == error_code # "SUCCESS"

\* what convertMoveItErrorCode can return
ConvertedCodes == {"SUCCESS", "MOVEIT_PLANNING_FAILED", "EXECUTION_FAILED"}

MANIP_PLANNING_GROUP == "manipulator"

\* move_group->getName()
GroupNames == {MANIP_PLANNING_GROUP, "gripper"}

\* the 2 second timeout of execute, in poll cycles
TimeoutCycles == 3

\* allowed_start_tolerance_
allowed_start_tolerance_ == 2

\* last_point.size()
NumTrajectoryJoints == 2

\* current_point[i] - last_point[i]: inside the tolerance, at it, beyond it
Deviations == {0, allowed_start_tolerance_, -allowed_start_tolerance_ - 1}

CurrentPoints == [1..NumTrajectoryJoints -> Deviations]

fabs(x) == IF x < 0 THEN -x ELSE x

\* the for loop of execute looking at joint 0 only
jointsIdenticalFirstOnly(deviation) ==
    ~(fabs(deviation[1]) >= allowed_start_tolerance_)

\* the for loop of execute: TRUE iff it sets identical, FALSE iff it sleeps and breaks
jointsIdentical(deviation) ==
    /\ Len(deviation) > 0
    /\ \A n \in 1..Len(deviation) : ~(fabs(deviation[n]) >= allowed_start_tolerance_)

checkTrajectory(points, too_close, in_collision) ==
    IF points < 3 THEN "TOO_FEW_WAYPOINTS"
    ELSE IF too_close THEN "GOAL_TOO_CLOSE_TO_START"
    ELSE IF in_collision THEN "GOAL_IN_COLLISION"
    ELSE "SUCCESS"

\* runPTPTrajectory going on to execute whatever a step returned
stepAfterAlways(step, for_gripper, error_code) ==
    IF step = "plan" /\ ~for_gripper THEN "checkTrajectory"
    ELSE IF step = "checkTrajectory" THEN "modifyPtpTrajectory"
    ELSE "execute"

\* where runPTPTrajectory goes after a step that returned error_code
stepAfter(step, for_gripper, error_code) ==
    IF failed(error_code) THEN "done"
    ELSE IF step = "plan" /\ ~for_gripper THEN "checkTrajectory"
    ELSE IF step = "checkTrajectory" THEN "modifyPtpTrajectory"
    ELSE "execute"

\* the step is taken, it returns error_code
Step(step, error_code) ==
    /\ log' = Append(log, [call |-> step, error_code |-> error_code])
    /\ frame' = [frame EXCEPT !.pc = stepAfter(step, frame.for_gripper, error_code),
                              !.ret = IF failed(error_code) THEN error_code ELSE @]

RunPTPTrajectoryCall ==
    /\ frame = NoFrame
    /\ \E group \in GroupNames, for_gripper \in BOOLEAN :
          frame' = [name |-> "runPTPTrajectory", pc |-> "plan", group |-> group,
                    for_gripper |-> for_gripper, identical |-> FALSE, elapsed |-> 0,
                    ret |-> "none"]
    /\ UNCHANGED <<log, iface_state_, intervals, planning>>

Plan ==
    /\ frame.name = "runPTPTrajectory"
    /\ frame.pc = "plan"
    /\ \E error_code \in ConvertedCodes : Step("plan", error_code)
    /\ UNCHANGED <<iface_state_, intervals, planning>>

CheckTrajectory ==
    /\ frame.name = "runPTPTrajectory"
    /\ frame.pc = "checkTrajectory"
    /\ \E points \in {2, 3}, too_close \in BOOLEAN, in_collision \in BOOLEAN :
          Step("checkTrajectory", checkTrajectory(points, too_close, in_collision))
    /\ UNCHANGED <<iface_state_, intervals, planning>>

ModifyPtpTrajectory ==
    /\ frame.name = "runPTPTrajectory"
    /\ frame.pc = "modifyPtpTrajectory"
    /\ \E success \in BOOLEAN :
          Step("modifyPtpTrajectory",
               IF success THEN "SUCCESS" ELSE "TRAJECTORY_MODIFICATION_FAILED")
    /\ UNCHANGED <<iface_state_, intervals, planning>>

\* execute up to the polling loop
Execute ==
    /\ frame.name = "runPTPTrajectory"
    /\ frame.pc = "execute"
    /\ \E error_code \in ConvertedCodes :
          /\ log' = Append(log, [call |-> "execute", error_code |-> error_code])
          /\ frame' = IF failed(error_code)
                      THEN [frame EXCEPT !.pc = "done", !.ret = error_code]
                      ELSE IF frame.group # MANIP_PLANNING_GROUP
                      THEN [frame EXCEPT !.pc = "done", !.ret = "SUCCESS"]
                      ELSE [frame EXCEPT !.pc = "poll"]
    /\ UNCHANGED <<iface_state_, intervals, planning>>

\* one iteration of the polling loop; r.sleep() lasts to the next cycle or, late, the one after
Poll ==
    /\ frame.name = "runPTPTrajectory"
    /\ frame.pc = "poll"
    /\ ~frame.identical /\ frame.elapsed < TimeoutCycles
    /\ \E current_point \in CurrentPoints, cycles \in 1..2 :
          /\ log' = Append(log, [call |-> "getCurrentRobotState", elapsed |-> frame.elapsed,
                                 deviation |-> current_point])
          /\ frame' = IF jointsIdentical(current_point)
                      THEN [frame EXCEPT !.identical = TRUE]
                      ELSE [frame EXCEPT !.elapsed = @ + cycles]
    /\ UNCHANGED <<iface_state_, intervals, planning>>

\* the polling loop is left
ExecuteReturn ==
    /\ frame.name = "runPTPTrajectory"
    /\ frame.pc = "poll"
    /\ ~(~frame.identical /\ frame.elapsed < TimeoutCycles)
    /\ frame' = [frame EXCEPT !.pc = "done",
                              !.ret = IF ~frame.identical THEN "EXECUTION_FAILED"
                                      ELSE "SUCCESS"]
    /\ UNCHANGED <<log, iface_state_, intervals, planning>>

NextRun ==
    \/ RunPTPTrajectoryCall
    \/ Plan
    \/ CheckTrajectory
    \/ ModifyPtpTrajectory
    \/ Execute
    \/ Poll
    \/ ExecuteReturn

SpecRun == Init /\ [][NextRun]_vars

\* the clock goes on and the node keeps running
SpecRunFair == SpecRun /\ WF_vars(NextRun)

(***************************************************************************)
(* RLLErrorCode: the codes the move interface uses, in the order of their  *)
(* values, and the classes the code asks for.                              *)
(***************************************************************************)

ErrorCodes ==
    <<"SUCCESS",
      "INVALID_INPUT", "INVALID_TARGET_POSE", "JOINT_VALUES_OUT_OF_RANGE", "TOO_FEW_WAYPOINTS",
      "GOAL_TOO_CLOSE_TO_START", "GOAL_IN_COLLISION", "NO_IK_SOLUTION_FOUND",
      "MOVEIT_PLANNING_FAILED", "ONLY_PARTIAL_PATH_PLANNED",
      "RECOVERABLE_FAILURE", "NO_RANDOM_POSITION_FOUND",
      "CRITICAL_FAILURE", "INSUFFICIENT_PERMISSION", "MANIPULATOR_NOT_AVAILABLE",
      "TRAJECTORY_MODIFICATION_FAILED", "EXECUTION_FAILED">>

\* RLLErrorCode::value()
value(error_code) == CHOOSE n \in 1..Len(ErrorCodes) : ErrorCodes[n] = error_code

succeeded(error_code) == error_code = "SUCCESS"

isInvalidInput(error_code) ==
    /\ value(error_code) >= value("INVALID_INPUT")
    /\ value(error_code) < value("RECOVERABLE_FAILURE")

isRecoverableFailure(error_code) ==
    /\ value(error_code) >= value("RECOVERABLE_FAILURE")
    /\ value(error_code) < value("CRITICAL_FAILURE")

isCriticalFailure(error_code) == value(error_code) >= value("CRITICAL_FAILURE")

\* this->determineWorse(other)
determineWorse(this, other) == IF value(other) > value(this) THEN other ELSE this

(***************************************************************************)
(* moveRandom, one attempt at a time.  Whether the random pose is too      *)
(* close, what the IK and the collision test answer and what the motion    *)
(* returns are inputs.  A random pose is named by the attempt that drew    *)
(* it, 0 standing for a pose never set.                                    *)
(***************************************************************************)

\* the attempts moveRandom makes at most
MaxAttempts == 30

\* what runPTPTrajectory can return
PTPCodes == ConvertedCodes \cup {"TOO_FEW_WAYPOINTS", "GOAL_TOO_CLOSE_TO_START",
                                 "GOAL_IN_COLLISION", "TRAJECTORY_MODIFICATION_FAILED"}

\* the IK answers with at most one solution
RandomIKResults == {result \in IKResults : Len(result.ik_solutions) <= 1}

\* what an attempt did: the pose it drew and what the calls it made returned
Attempt(pose, too_close, collision, motion) ==
    [pose |-> pose, too_close |-> too_close, collision |-> collision, motion |-> motion]

\* moveRandom returning after a motion that failed in any way
afterMotionNoRetry(error_code) ==
    IF failed(error_code) THEN "return" ELSE "loop"

\* moveRandom after runPTPTrajectory: "return" iff it returns error_code at once
afterMotion(error_code) ==
    IF isCriticalFailure(error_code) THEN "return" ELSE "loop"

MoveRandomCall ==
    /\ frame = NoFrame
    /\ frame' = [name |-> "moveRandom", pc |-> "loop", success |-> FALSE,
                 retry_counter |-> 0, random_pose |-> 0, goal_joint_values |-> ZeroJoints,
                 last |-> Attempt(0, FALSE, "none", "none"), resp |-> [pose |-> 0],
                 ret |-> "none"]
    /\ UNCHANGED <<log, iface_state_, intervals, planning>>

\* one iteration of the loop
MoveRandomAttempt ==
    /\ frame.name = "moveRandom"
    /\ frame.pc = "loop"
    /\ ~frame.success /\ frame.retry_counter < MaxAttempts
    /\ \E too_close \in BOOLEAN, result \in RandomIKResults, in_collision \in {{}, Solutions},
          motion \in PTPCodes :
          LET pose == frame.retry_counter + 1
              drawn == [frame EXCEPT !.retry_counter = @ + 1, !.random_pose = pose]
              checked == poseGoalInCollision(result, in_collision, frame.goal_joint_values, <<>>)
              tested == [drawn EXCEPT !.goal_joint_values = checked.goal_joint_values]
          IN  IF too_close
              THEN frame' = [drawn EXCEPT !.success = FALSE,
                                          !.last = Attempt(pose, TRUE, "none", "none")]
              ELSE IF failed(checked.ret)
              THEN frame' = [tested EXCEPT !.success = FALSE,
                                           !.last = Attempt(pose, FALSE, checked.ret, "none")]
              ELSE IF afterMotion(motion) = "return"
              THEN frame' = [tested EXCEPT !.pc = "done", !.ret = motion,
                                           !.last = Attempt(pose, FALSE, checked.ret, motion)]
              ELSE frame' = [tested EXCEPT !.success = succeeded(motion),
                                           !.last = Attempt(pose, FALSE, checked.ret, motion)]
    /\ UNCHANGED <<log, iface_state_, intervals, planning>>

\* the loop is left
MoveRandomReturn ==
    /\ frame.name = "moveRandom"
    /\ frame.pc = "loop"
    /\ ~(~frame.success /\ frame.retry_counter < MaxAttempts)
    /\ frame' = IF frame.success
                THEN [frame EXCEPT !.pc = "done", !.resp = [pose |-> frame.random_pose],
                                   !.ret = "SUCCESS"]
                ELSE [frame EXCEPT !.pc = "done", !.ret = "NO_RANDOM_POSITION_FOUND"]
    /\ UNCHANGED <<log, iface_state_, intervals, planning>>

NextRandom == MoveRandomCall \/ MoveRandomAttempt \/ MoveRandomReturn

SpecRandom == Init /\ [][NextRandom]_vars

\* the node keeps running
SpecRandomFair == SpecRandom /\ WF_vars(NextRandom)

(***************************************************************************)
(* The services robotReadySrv, getCurrentJointValuesSrv and                *)
(* getCurrentPoseSrv with beforeServiceCall and afterServiceCall, one call *)
(* of a helper at a time.  What iface_state_, the permissions, the         *)
(* manipulator and resetToHome answer are inputs.                          *)
(***************************************************************************)

ROBOT_READY_SRV_NAME == "robot_ready"

GET_POSE_SRV_NAME == "get_current_pose"

GET_JOINT_VALUES_SRV_NAME == "get_current_joint_values"

\* the services whose handlers call beforeServiceCall and afterServiceCall themselves
ServiceNames == {ROBOT_READY_SRV_NAME, GET_JOINT_VALUES_SRV_NAME, GET_POSE_SRV_NAME}

\* the function the handler guards by the outcome of beforeServiceCall
GuardedAction ==
    [robot_ready |-> "resetToHome",
     get_current_joint_values |-> "getCurrentJointValues",
     get_current_pose |-> "getCurrentPose"]

\* permissions_.isPermissionRequiredFor(srv_name, only_during_job_run_permission_)
only_during_job_run(srv_name) == srv_name # ROBOT_READY_SRV_NAME

\* every RLLErrorCode
Codes == {ErrorCodes[n] : n \in 1..Len(ErrorCodes)}

\* what resetToHome can return
ResetToHomeCodes == PTPCodes \cup {"MANIPULATOR_NOT_AVAILABLE"}

\* RLLErrorCode::succeededSrv()
succeededSrv(error_code) == succeeded(error_code)

\* the return value of beforeServiceCall, begin being what beginServiceCall returned
beforeServiceCall(begin, permitted, available) ==
    IF failed(begin) THEN begin
    ELSE IF ~permitted THEN "INSUFFICIENT_PERMISSION"
    ELSE IF ~available THEN "MANIPULATOR_NOT_AVAILABLE"
    ELSE "SUCCESS"

\* a handler that performs its action whatever beforeServiceCall returned
guardPassedAlways(error_code) == TRUE

\* if (error_code.succeeded()) in the handlers
guardPassed(error_code) == succeeded(error_code)

\* handleFailureSeverity aborting on a recoverable failure as well
handleFailureSeverityNoRecovery(error_code) ==
    IF isInvalidInput(error_code) THEN FALSE
    ELSE TRUE

\* handleFailureSeverity: TRUE iff it calls abortDueToCriticalFailure
handleFailureSeverity(error_code) ==
    IF isInvalidInput(error_code) THEN FALSE
    ELSE IF isRecoverableFailure(error_code) THEN FALSE
    ELSE TRUE

\* the handler is entered
ServiceCall ==
    /\ frame = NoFrame
    /\ \E srv_name \in ServiceNames :
          frame' = [name |-> srv_name, pc |-> "beforeServiceCall", error_code |-> "none",
                    before |-> "none", previous_error_code |-> "none",
                    resp |-> [set |-> FALSE, error_code |-> "none", success |-> FALSE],
                    ret |-> FALSE]
    /\ UNCHANGED <<log, iface_state_, intervals, planning>>

BeforeServiceCall ==
    /\ frame.name \in ServiceNames
    /\ frame.pc = "beforeServiceCall"
    /\ \E begin \in Codes, permitted \in BOOLEAN, available \in BOOLEAN :
          LET error_code == beforeServiceCall(begin, permitted, available)
          IN  /\ log' = Append(log, [call |-> "beginServiceCall", srv_name |-> frame.name,
                                     only_during_job_run |-> only_during_job_run(frame.name),
                                     error_code |-> begin])
              /\ frame' = [frame EXCEPT !.error_code = error_code,
                                        !.before = error_code,
                                        !.pc = IF guardPassed(error_code)
                                               THEN "action" ELSE "afterServiceCall"]
    /\ UNCHANGED <<iface_state_, intervals, planning>>

\* resetToHome, or the reading of the joint values or the pose
Action ==
    /\ frame.name \in ServiceNames
    /\ frame.pc = "action"
    /\ \E home \in ResetToHomeCodes :
          LET error_code == IF frame.name = ROBOT_READY_SRV_NAME THEN home ELSE frame.error_code
          IN  /\ log' = Append(log, [call |-> GuardedAction[frame.name], srv_name |-> frame.name,
                                     only_during_job_run |-> only_during_job_run(frame.name),
                                     error_code |-> error_code])
              /\ frame' = [frame EXCEPT !.error_code = error_code,
                                        !.resp.set = frame.name # ROBOT_READY_SRV_NAME,
                                        !.pc = "afterServiceCall"]
    /\ UNCHANGED <<iface_state_, intervals, planning>>

\* afterServiceCall and the return of the handler
AfterServiceCall ==
    /\ frame.name \in ServiceNames
    /\ frame.pc = "afterServiceCall"
    /\ \E end \in Codes :
          LET error_code == determineWorse(frame.error_code, end)
              abort == failed(error_code) /\ handleFailureSeverity(error_code)
              ended == Append(log, [call |-> "endServiceCall", srv_name |-> frame.name,
                                    only_during_job_run |-> only_during_job_run(frame.name),
                                    error_code |-> end])
          IN  /\ log' = IF abort
                        THEN Append(ended, [call |-> "abortDueToCriticalFailure",
                                            srv_name |-> frame.name,
                                            only_during_job_run |-> only_during_job_run(frame.name),
                                            error_code |-> error_code])
                        ELSE ended
              /\ iface_state_' = IF abort THEN [iface_state_ EXCEPT !.error_state = TRUE]
                                 ELSE iface_state_
              /\ frame' = [frame EXCEPT !.previous_error_code = frame.error_code,
                                        !.error_code = error_code,
                                        !.resp.error_code = error_code,
                                        !.resp.success = succeededSrv(error_code),
                                        !.pc = "done",
                                        !.ret = TRUE]
    /\ UNCHANGED <<intervals, planning>>

NextService == ServiceCall \/ BeforeServiceCall \/ Action \/ AfterServiceCall

SpecService == Init /\ [][NextService]_vars

(***************************************************************************)
(* Properties                                                              *)
(***************************************************************************)

\* computeFeasibleIntervals has returned
Computed == pc \in {"done", "queried"}

\* the end points of all intervals that lie on [-pi, pi], with -pi and pi
Breakpoints ==
    {-M_PI, M_PI} \cup
    {x \in {lowerLimit(feasible_intervals_[n]) : n \in 1..Len(feasible_intervals_)}
        \cup {upperLimit(feasible_intervals_[n]) : n \in 1..Len(feasible_intervals_)}
        \cup {lowerLimit(blocked_intervals_[n]) : n \in 1..Len(blocked_intervals_)}
        \cup {upperLimit(blocked_intervals_[n]) : n \in 1..Len(blocked_intervals_)} :
        -M_PI <= x /\ x <= M_PI}

\* the arcs of [-pi, pi] between two neighbouring break points
Arcs == {xy \in Breakpoints \X Breakpoints :
            /\ xy[1] < xy[2]
            /\ \A z \in Breakpoints : ~(xy[1] < z /\ z < xy[2])}

FeasibleOver(xy) == {n \in 1..Len(feasible_intervals_) :
                        /\ lowerLimit(feasible_intervals_[n]) <= xy[1]
                        /\ xy[2] <= upperLimit(feasible_intervals_[n])}

BlockedOver(xy) == {n \in 1..Len(blocked_intervals_) :
                       /\ lowerLimit(blocked_intervals_[n]) <= xy[1]
                       /\ xy[2] <= upperLimit(blocked_intervals_[n])}

\* the arc lies in exactly one feasible interval and in no blocked one, or in a blocked
\* interval and in no feasible one
ArcCoveredOnce(xy) ==
    \/ Cardinality(FeasibleOver(xy)) = 1 /\ BlockedOver(xy) = {}
    \/ FeasibleOver(xy) = {} /\ BlockedOver(xy) # {}

\* every feasible interval is a sub-arc of [-pi, pi]
FeasibleOnCircle ==
    \A n \in 1..Len(feasible_intervals_) :
        /\ -M_PI <= lowerLimit(feasible_intervals_[n])
        /\ lowerLimit(feasible_intervals_[n]) <= upperLimit(feasible_intervals_[n])
        /\ upperLimit(feasible_intervals_[n]) <= M_PI

\* C1 as stated: after computeFeasibleIntervals the feasible and the merged blocked
\* intervals cover [-pi, pi] exactly, every arc of the circle lying in one feasible interval
\* or in blocked intervals, never in both and never in two feasible intervals.
C1_CoverExact ==
    Computed => FeasibleOnCircle /\ \A xy \in Arcs : ArcCoveredOnce(xy)

\* an arc no longer than the tolerance that ends at -pi or at pi
SeamSliver(xy) ==
    /\ xy[2] - xy[1] <= ZERO_ROUNDING_TOL
    /\ xy[1] = -M_PI \/ xy[2] = M_PI

\* C1, amended: the feasible and the merged blocked intervals cover [-pi, pi] with disjoint
\* interiors, except that an arc at -pi or at pi that is no longer than ZERO_ROUNDING_TOL can
\* be left uncovered, which happens only when the feasible list is empty.
C1_CoverModuloTolerance ==
    Computed =>
        /\ FeasibleOnCircle
        /\ \A xy \in Arcs :
              \/ ArcCoveredOnce(xy)
              \/ /\ SeamSliver(xy)
                 /\ FeasibleOver(xy) = {} /\ BlockedOver(xy) = {}
                 /\ Len(feasible_intervals_) = 0

\* C1 witness: a pose with two blocked and three feasible intervals
C1_Witness ==
    /\ Computed
    /\ Len(blocked_intervals_) = 2
    /\ Len(feasible_intervals_) = 3

\* intervalForArmAngle has been called; call holds its arguments, ret what it returned
Queried == pc = "queried"

\* the feasible intervals that contain the arm angle q
Containing(q) == {n \in 1..Len(feasible_intervals_) :
                     /\ lowerLimit(feasible_intervals_[n]) <= q
                     /\ q <= upperLimit(feasible_intervals_[n])}

TouchesLower(iv) == kIsEqual(lowerLimit(iv), -M_PI)

TouchesUpper(iv) == kIsEqual(upperLimit(iv), M_PI)

FullCircle(iv) == TouchesLower(iv) /\ TouchesUpper(iv)

\* the interval touches -pi or pi and is not the full circle
SeamInterval(iv) == (TouchesLower(iv) \/ TouchesUpper(iv)) /\ ~FullCircle(iv)

\* C2: a query inside a feasible interval gets SUCCESS and that interval; an interval that
\* touches neither -pi nor pi, and the full circle, are returned as they are in the list,
\* and the query value is left as it was passed.
C2_ContainedQuerySucceeds ==
    (Queried /\ Containing(call.query_arm_angle) # {}) =>
        /\ ret.msg = "SUCCESS"
        /\ \E n \in Containing(call.query_arm_angle) :
              \/ SeamInterval(feasible_intervals_[n])
              \/ /\ ret.current_interval = feasible_intervals_[n]
                 /\ ret.query_arm_angle = call.query_arm_angle

\* C2 witness: the query lies in the middle one of three feasible intervals
C2_Witness ==
    /\ Queried
    /\ Len(feasible_intervals_) = 3
    /\ Containing(call.query_arm_angle) = {2}
    /\ ~SeamInterval(feasible_intervals_[2])
    /\ call.current_interval # feasible_intervals_[2]
    /\ ret.msg = "SUCCESS"

\* C3: for a query inside a feasible interval that touches -pi or pi and is not the full
\* circle, the returned interval has lower < upper and the query value written back lies
\* in it, lower <= query <= upper, the end points of the interval included.
C3_SeamQueryInsideReturned ==
    (Queried /\ \E n \in Containing(call.query_arm_angle) :
                    SeamInterval(feasible_intervals_[n])) =>
        /\ ret.msg = "SUCCESS"
        /\ lowerLimit(ret.current_interval) < upperLimit(ret.current_interval)
        /\ lowerLimit(ret.current_interval) <= ret.query_arm_angle
        /\ ret.query_arm_angle <= upperLimit(ret.current_interval)

\* the query lies strictly between feasible intervals n and n + 1
InGap(q, n) ==
    /\ n \in 1..(Len(feasible_intervals_) - 1)
    /\ upperLimit(feasible_intervals_[n]) < q
    /\ q < lowerLimit(feasible_intervals_[n + 1])

Middle(iv) == (upperLimit(iv) + lowerLimit(iv)) \div 2

\* C4: a query in the blocked gap between two feasible intervals gets
\* ARMANGLE_NOT_IN_SAME_INTERVAL and, as fallback, the mid-point of the neighbouring
\* interval whose mid-point is closer to the query, the one above on equal distance.
C4_FallbackBetweenIntervals ==
    Queried =>
        \A n \in 1..Len(feasible_intervals_) :
            InGap(call.query_arm_angle, n) =>
                LET q == call.query_arm_angle
                    below == Middle(feasible_intervals_[n])
                    above == Middle(feasible_intervals_[n + 1])
                IN  /\ ret.msg = "ARMANGLE_NOT_IN_SAME_INTERVAL"
                    /\ Abs(above - q) <= Abs(q - below) => ret.fallback_arm_angle = above
                    /\ Abs(above - q) > Abs(q - below) => ret.fallback_arm_angle = below

\* C4 witness: a query at equal distance from both mid-points, answered with the one above
C4_Witness ==
    /\ Queried
    /\ \E n \in 1..Len(feasible_intervals_) :
          /\ InGap(call.query_arm_angle, n)
          /\ Middle(feasible_intervals_[n + 1]) - call.query_arm_angle
                = call.query_arm_angle - Middle(feasible_intervals_[n])
          /\ ret.fallback_arm_angle = Middle(feasible_intervals_[n + 1])
          /\ ret.fallback_arm_angle # call.fallback_arm_angle

\* C5: a query below the lowest feasible interval, or above the highest, gets as fallback
\* the mid-point of the first or of the last feasible interval, whichever is closer to the
\* query when the distance to the far one is taken around the seam at +-pi.
C5_FallbackOutsideIntervals ==
    (Queried /\ Len(feasible_intervals_) > 0) =>
        LET q == call.query_arm_angle
            first == Middle(feasible_intervals_[1])
            last == Middle(feasible_intervals_[Len(feasible_intervals_)])
            belowAll == q < lowerLimit(feasible_intervals_[1])
            aboveAll == q > upperLimit(feasible_intervals_[Len(feasible_intervals_)])
            toFirst == IF belowAll THEN first - q ELSE (M_PI - q) + (first + M_PI)
            toLast == IF belowAll THEN (q + M_PI) + (M_PI - last) ELSE q - last
        IN  (belowAll \/ aboveAll) =>
                /\ ret.msg = "ARMANGLE_NOT_IN_SAME_INTERVAL"
                /\ ret.fallback_arm_angle \in {first, last}
                /\ toFirst < toLast => ret.fallback_arm_angle = first
                /\ toLast < toFirst => ret.fallback_arm_angle = last

\* C5 witness: a query below the lowest feasible interval that is closer, around the seam,
\* to the mid-point of the last one
C5_Witness ==
    /\ Queried
    /\ Len(feasible_intervals_) >= 2
    /\ call.query_arm_angle < lowerLimit(feasible_intervals_[1])
    /\ ret.fallback_arm_angle = Middle(feasible_intervals_[Len(feasible_intervals_)])
    /\ ret.fallback_arm_angle # Middle(feasible_intervals_[1])

\* C6: with an empty feasible list the call returns NO_SOLUTION_FOR_ARMANGLE and
\* fallback_arm_angle 0; whenever it does not return SUCCESS, the query arm angle and
\* current_interval are as the caller passed them.
C6_FailureLeavesArgumentsAlone ==
    Queried =>
        /\ Len(feasible_intervals_) = 0 =>
              /\ ret.msg = "NO_SOLUTION_FOR_ARMANGLE"
              /\ ret.fallback_arm_angle = 0
        /\ ret.msg # "SUCCESS" =>
              /\ ret.query_arm_angle = call.query_arm_angle
              /\ ret.current_interval = call.current_interval

\* C6 witness: no feasible interval; the caller's interval is not the default one and its
\* fallback_arm_angle was not 0 before the call
C6_Witness ==
    /\ Queried
    /\ Len(feasible_intervals_) = 0
    /\ call.fallback_arm_angle # 0
    /\ call.current_interval # DefaultInterval
    /\ ret.msg = "NO_SOLUTION_FOR_ARMANGLE"

\* C7 as stated: when no feasible interval remains, computeFeasibleIntervals reports
\* NO_SOLUTION_FOR_ARMANGLE.
C7_ComputeReportsNoSolution ==
    (Computed /\ Len(feasible_intervals_) = 0) => compute_msg = "NO_SOLUTION_FOR_ARMANGLE"

\* C7, amended: computeFeasibleIntervals returns SUCCESS also when no feasible interval
\* remains; NO_SOLUTION_FOR_ARMANGLE is what intervalForArmAngle then returns for any query.
C7_NoSolutionReportedByQuery ==
    /\ Computed => compute_msg = "SUCCESS"
    /\ (Queried /\ Len(feasible_intervals_) = 0) => ret.msg = "NO_SOLUTION_FOR_ARMANGLE"

\* C7 witness: the blocked intervals cover the circle and a query has been answered
C7_Witness ==
    /\ Queried
    /\ Len(feasible_intervals_) = 0
    /\ Len(blocked_intervals_) = 1
    /\ lowerLimit(blocked_intervals_[1]) <= -M_PI
    /\ upperLimit(blocked_intervals_[1]) >= M_PI
    /\ compute_msg = "SUCCESS"

\* the feasible intervals whose overlapping flag is set
Flagged == {n \in 1..Len(feasible_intervals_) : overlapping(feasible_intervals_[n])}

C9_OverlapIffAtSeam ==
    overlapping(interval) <=> (TouchesLower(interval) \/ TouchesUpper(interval))

\* the arm angle, reduced modulo 2*pi to [-pi, pi], lies in a feasible interval
FeasibleModulo(x) ==
    \E k \in {-1, 0, 1} :
        /\ -M_PI <= x + 2 * k * M_PI
        /\ x + 2 * k * M_PI <= M_PI
        /\ Containing(x + 2 * k * M_PI) # {}

\* C18: whenever intervalForArmAngle returns SUCCESS the returned interval is no longer
\* than 2*pi and every arm angle in it, reduced modulo 2*pi to [-pi, pi], lies in a
\* feasible interval, also when only one feasible interval touches -pi or pi.
C18_ReturnedIntervalFeasible ==
    (Queried /\ ret.msg = "SUCCESS") =>
        /\ upperLimit(ret.current_interval) - lowerLimit(ret.current_interval) <= 2 * M_PI
        /\ \A x \in lowerLimit(ret.current_interval)..upperLimit(ret.current_interval) :
              FeasibleModulo(x)

\* the first call of computeFeasibleIntervals has returned, no second one has begun
FirstCallDone == pc = "done" /\ calls = 1

\* the last iteration of the hinge loop, which runs on to the return
LastIteration == pc = "hinge" /\ pc' = "done"

\* the point y/2 lies in an interval of the list
Covers(list, y) ==
    \E n \in 1..Len(list) : 2 * lowerLimit(list[n]) <= y /\ y <= 2 * upperLimit(list[n])

\* the two lists have the same union, compared at every half unit from -2*pi to 2*pi
SameUnion(a, b) == \A y \in (-4 * M_PI)..(4 * M_PI) : Covers(a, y) <=> Covers(b, y)

\* sorted by lower limit, a strictly positive gap between neighbours
SortedWithGaps(list) ==
    \A n \in 1..(Len(list) - 1) :
        /\ lowerLimit(list[n]) <= lowerLimit(list[n + 1])
        /\ upperLimit(list[n]) < lowerLimit(list[n + 1])

\* C14: the merged blocked list computeFeasibleIntervals leaves is sorted, has a strictly
\* positive gap between consecutive intervals, and has the same union as the blocked
\* intervals collected before the sort: no blocked point is lost, also when an interval lies
\* inside an earlier one.
C14_MergeKeepsUnion ==
    [][LastIteration =>
          \A collected \in hingeIteration(blocked_intervals_, i, coeffs_[4 * i + 1]) :
              /\ SortedWithGaps(blocked_intervals_')
              /\ SameUnion(blocked_intervals_', collected)]_vars

\* C14 witness: the guard interval of a singularity of the first pivot joint holds a blocked
\* interval of the same joint, and the merged list is the guard interval alone
C14_Witness ==
    /\ FirstCallDone
    /\ coeffs_[0].singular.found
    /\ \E sorted \in SortLimits(mappedLimits(lower_joint_limits[0], upper_joint_limits[0],
                                             coeffs_[0])) :
          \E n \in 1..Len(determineBlockedIntervals(<<>>, sorted)) :
              LET inner == determineBlockedIntervals(<<>>, sorted)[n]
              IN  /\ coeffs_[0].singular.psi_singular - MARGIN_SINGULARITY < lowerLimit(inner)
                  /\ upperLimit(inner) < coeffs_[0].singular.psi_singular + MARGIN_SINGULARITY
    /\ Len(blocked_intervals_) = 1
    /\ lowerLimit(blocked_intervals_[1]) = coeffs_[0].singular.psi_singular - MARGIN_SINGULARITY
    /\ upperLimit(blocked_intervals_[1]) = coeffs_[0].singular.psi_singular + MARGIN_SINGULARITY

\* an iteration of the pivot or of the hinge loop that does not run on to the return
MapStep == pc \in {"pivot", "hinge"} /\ pc' # "done" /\ i' # i

\* the joint the iteration about to run asks coeffs_ about
StepJoint == IF pc = "pivot" THEN 2 * i ELSE 4 * i + 1

\* blocked_intervals_ when that iteration calls mapLimitsToArmAngle
StepBefore ==
    IF pc = "pivot"
    THEN singularityBlocked(blocked_intervals_, coeffs_[StepJoint].singular)
    ELSE blocked_intervals_

\* the limit samples of joint j in the pose, sorted by arm angle
LimitSamples(j) ==
    SortLimits(mappedLimits(lower_joint_limits[j], upper_joint_limits[j], coeffs_[j]))

\* what the step appended to blocked_intervals_ after StepBefore
StepAdded == SubSeq(blocked_intervals_', Len(StepBefore) + 1, Len(blocked_intervals_'))

StepKeeps == SubSeq(blocked_intervals_', 1, Len(StepBefore)) = StepBefore

\* sign(q) = sign(dq/dpsi) at sample n
SameSign(samples, n) ==
    (samples[n].joint_angle_ < 0) <=> (samples[n].joint_derivative_ < 0)

\* the sub-arc from sample j to sample j_next is blocked
BlockedArc(samples, j, j_next) == SameSign(samples, j) \/ ~SameSign(samples, j_next)

\* the blocked sub-arcs between consecutive samples
InnerArcs(samples) ==
    {NewInterval(samples[j].arm_angle_, samples[j + 1].arm_angle_) :
        j \in {n \in 1..(Len(samples) - 1) : BlockedArc(samples, n, n + 1)}}

\* the two seam intervals of the last-to-first pair
SeamArcs(samples) ==
    IF BlockedArc(samples, Len(samples), 1)
    THEN {NewInterval(-M_PI, samples[1].arm_angle_),
          NewInterval(samples[Len(samples)].arm_angle_, M_PI)}
    ELSE {}

\* C15: for a joint with limit samples, the intervals added to blocked_intervals_ are the
\* sub-arcs between consecutive samples j and j+1 with sign(q) = sign(dq/dpsi) at j or
\* sign(q) # sign(dq/dpsi) at j+1 and, by the same test on the last-to-first pair, the two
\* seam intervals [-pi, psi_first] and [psi_last, pi]; nothing else is added.
C15_BlockedArcsBySign ==
    [][MapStep =>
          \A samples \in LimitSamples(StepJoint) :
              Len(samples) > 0 =>
                  /\ StepKeeps
                  /\ {StepAdded[n] : n \in 1..Len(StepAdded)}
                        = InnerArcs(samples) \cup SeamArcs(samples)
                  /\ Len(StepAdded)
                        = Cardinality(InnerArcs(samples)) + Cardinality(SeamArcs(samples))]_vars

\* C15 witness: four samples of the first pivot joint, two of the three sub-arcs between
\* them blocked, the seam not
C15_Witness ==
    /\ calls = 0
    /\ pc = "pivot"
    /\ i = 1
    /\ ~coeffs_[0].singular.found
    /\ \E samples \in LimitSamples(0) :
          /\ Len(samples) = 4
          /\ SeamArcs(samples) = {}
          /\ Cardinality(InnerArcs(samples)) = 2
    /\ Len(blocked_intervals_) = 2

\* the joint angle lies outside the limits of joint j, by more than the tolerance
OutsideLimits(joint_angle, j) ==
    \/ joint_angle - upper_joint_limits[j] > ZERO_ROUNDING_TOL
    \/ lower_joint_limits[j] - joint_angle > ZERO_ROUNDING_TOL

\* C16: a joint for which no limit sample is produced, no crossing being returned or every
\* returned crossing being discarded, blocks the whole circle [-pi, pi] if its angle at arm
\* angle 0 is outside its limits and adds no blocked interval otherwise.
C16_NoSampleAllOrNothing ==
    [][MapStep =>
          \A samples \in LimitSamples(StepJoint) :
              Len(samples) = 0 =>
                  blocked_intervals_' =
                      IF OutsideLimits(coeffs_[StepJoint].joint_angle_test, StepJoint)
                      THEN Append(StepBefore, NewInterval(-M_PI, M_PI))
                      ELSE StepBefore]_vars

\* C16 witness: the first pivot joint returned crossings of its lower limit, all of them
\* discarded, and lies below its lower limit at arm angle 0: the circle is blocked
C16_Witness ==
    /\ calls = 0
    /\ pc = "pivot"
    /\ i = 1
    /\ coeffs_[0].lower.found
    /\ LimitSamples(0) = {<<>>}
    /\ coeffs_[0].joint_angle_test < lower_joint_limits[0]
    /\ blocked_intervals_ = <<NewInterval(-M_PI, M_PI)>>

\* computeFeasibleIntervals has returned, for the first or for the second time
PoseComputed == pc = "done" /\ calls >= 1

\* the pivot joints of the pose that report a singularity
SingularJoints == {j \in {2 * n : n \in 0..(RLL_NUM_JOINTS_P - 1)} : coeffs_[j].singular.found}

\* C17: for every pivot joint reporting a singularity at psi*, no feasible interval holds an
\* arm angle strictly inside [psi* - 10*ZERO_ROUNDING_TOL, psi* + 10*ZERO_ROUNDING_TOL]
\* after the computation.
C17_SingularityGuardBlocked ==
    PoseComputed =>
        \A j \in SingularJoints :
            \A n \in 1..Len(feasible_intervals_) :
                ~ /\ lowerLimit(feasible_intervals_[n])
                        < coeffs_[j].singular.psi_singular + 10 * ZERO_ROUNDING_TOL
                  /\ upperLimit(feasible_intervals_[n])
                        > coeffs_[j].singular.psi_singular - 10 * ZERO_ROUNDING_TOL

\* C17 witness: a singular pivot joint, and feasible intervals on both sides of its guard
\* interval
C17_Witness ==
    /\ FirstCallDone
    /\ SingularJoints # {}
    /\ Len(feasible_intervals_) >= 2
    /\ \E j \in SingularJoints :
          /\ upperLimit(feasible_intervals_[1])
                = coeffs_[j].singular.psi_singular - 10 * ZERO_ROUNDING_TOL
          /\ lowerLimit(feasible_intervals_[2])
                = coeffs_[j].singular.psi_singular + 10 * ZERO_ROUNDING_TOL

\* the joints of the pose with exactly one limit sample
SingleSampleJoints == {j \in CoefficientJoints : \A samples \in LimitSamples(j) : Len(samples) = 1}

\* C19: a joint with exactly one limit sample, at arm angle psi, blocks [-pi, psi] and
\* [psi, pi] whatever the signs of its angle and of the derivative at the sample, and the
\* feasible list of the pose is then empty.
C19_SingleSampleBlocksCircle ==
    /\ [][MapStep =>
             \A samples \in LimitSamples(StepJoint) :
                 Len(samples) = 1 =>
                     blocked_intervals_' =
                         Append(Append(StepBefore, NewInterval(-M_PI, samples[1].arm_angle_)),
                                NewInterval(samples[1].arm_angle_, M_PI))]_vars
    /\ []((PoseComputed /\ SingleSampleJoints # {}) => feasible_intervals_ = <<>>)

\* C19 witness: the first hinge joint has one limit sample, away from -pi and pi, and the
\* first call has returned with the circle blocked and no feasible interval
C19_Witness ==
    /\ FirstCallDone
    /\ 1 \in SingleSampleJoints
    /\ \E samples \in LimitSamples(1) : samples[1].arm_angle_ \notin {-M_PI, M_PI}
    /\ Len(blocked_intervals_) = 1
    /\ feasible_intervals_ = <<>>

\* C20: a second call of computeFeasibleIntervals with the same joint limits leaves
\* blocked_intervals_ and feasible_intervals_ as the first call left them.
C20_SecondCallChangesNothing ==
    (pc = "done" /\ calls = 2) =>
        /\ blocked_intervals_ = first_call.blocked_intervals_
        /\ feasible_intervals_ = first_call.feasible_intervals_

\* the state after one call of poseGoalInCollision
CollisionChecked == srv.name = "poseGoalInCollision"

\* solution n of the list is the first one that is not in collision
FirstFree(n) ==
    /\ n \in 1..Len(ik_result.ik_solutions)
    /\ ik_result.ik_solutions[n] \notin colliding
    /\ \A m \in 1..(n - 1) : ik_result.ik_solutions[m] \in colliding

\* C11: poseGoalInCollision asks the IK for all global configurations and tests the
\* returned solutions for collision in list order; it returns SUCCESS with
\* goal_joint_values set to the first solution that is not in collision,
\* GOAL_IN_COLLISION only if every returned solution is in collision, and
\* NO_IK_SOLUTION_FOUND, with no state tested for collision, if the IK reports an error.
C11_FirstFreeSolutionWins ==
    CollisionChecked =>
        /\ ik_result.global_configuration_mode = "RETURN_ALL_GLOBAL_CONFIGS"
        /\ Len(collision_tests) <= Len(ik_result.ik_solutions)
        /\ \A n \in 1..Len(collision_tests) : collision_tests[n] = ik_result.ik_solutions[n]
        /\ ik_result.error =>
              /\ srv.ret = "NO_IK_SOLUTION_FOUND"
              /\ collision_tests = <<>>
              /\ goal_joint_values = ZeroJoints
        /\ ~ik_result.error =>
              /\ srv.ret \in {"SUCCESS", "GOAL_IN_COLLISION"}
              /\ srv.ret = "SUCCESS" <=> \E n \in 1..Len(ik_result.ik_solutions) : FirstFree(n)
              /\ \A n \in 1..Len(ik_result.ik_solutions) :
                    FirstFree(n) => /\ goal_joint_values = ik_result.ik_solutions[n]
                                    /\ Len(collision_tests) = n
              /\ srv.ret = "GOAL_IN_COLLISION" =>
                    /\ \A n \in 1..Len(ik_result.ik_solutions) :
                          ik_result.ik_solutions[n] \in colliding
                    /\ Len(collision_tests) = Len(ik_result.ik_solutions)

\* a call in which the first two solutions are in collision and the third is not
C11_Witness ==
    /\ CollisionChecked
    /\ ~ik_result.error
    /\ FirstFree(3)
    /\ srv.ret = "SUCCESS"
    /\ goal_joint_values = ik_result.ik_solutions[3]

\* the state after one call of movePTPArmangle or moveLinArmangle
ArmangleServed == srv.name \in {"movePTPArmangle", "moveLinArmangle"}

\* nothing was asked of the robot: no joint values read, no IK call, no interpolation,
\* no plan and no execution
NoEffect ==
    /\ move_group = [seeded |-> 0, planned |-> 0, executed |-> 0]
    /\ ik_arm_angles = <<>>
    /\ arm_angles = <<>>

\* C12: movePTPArmangle and moveLinArmangle reject a requested arm angle outside
\* [-pi, pi] with INVALID_INPUT before any IK call, planning or execution, so the call
\* has no effect on the robot; an arm angle inside [-pi, pi], end points included, passes
\* the check: the handler goes on to read the current joint values and does not return
\* INVALID_INPUT.
C12_ArmangleRangeCheck ==
    ArmangleServed =>
        /\ (srv.arm_angle < -M_PI \/ srv.arm_angle > M_PI) =>
              /\ srv.ret = "INVALID_INPUT"
              /\ NoEffect
        /\ (-M_PI <= srv.arm_angle /\ srv.arm_angle <= M_PI) =>
              /\ srv.ret # "INVALID_INPUT"
              /\ move_group.seeded = 1

\* an arm angle just below -pi was rejected
C12_Witness ==
    /\ srv.name = "moveLinArmangle"
    /\ srv.arm_angle = -M_PI - 1
    /\ srv.ret = "INVALID_INPUT"
    /\ NoEffect

\* the fraction lies in [-pi, pi]
OnCircle(a) == -M_PI * a.den <= a.num /\ a.num <= M_PI * a.den

\* C13: for start and goal arm angles in [-pi, pi] and any direction, every element of
\* the list interpolateArmangleLinear produces in moveLinArmangle, and every arm angle
\* handed to getPositionIKarmangle, lies in [-pi, pi].
C13_ArmAnglesOnCircle ==
    ArmangleServed =>
        /\ \A n \in 1..Len(arm_angles) : OnCircle(arm_angles[n])
        /\ \A n \in 1..Len(ik_arm_angles) : OnCircle(ik_arm_angles[n])

\* getPathIK is running or has returned
InGetPathIK == frame.name = "getPathIK"

\* the joint solution of waypoint n, the initial seed standing for waypoint 0 and before
SolutionOf(n) == IF n <= 0 THEN frame.ik_seed_state ELSE log[n].sol

\* the IK calls that found a solution
Solved == {n \in 1..Len(log) : ~log[n].error}

\* C21: in getPathIK for pose waypoints the seed state given to the IK for waypoint i
\* has exactly two entries, first the joint solution of waypoint i-1 and second that of
\* waypoint i-2, the initial seed taking the place of a waypoint before the first; the
\* path starts with the initial seed state and each successful waypoint appends exactly
\* one state, its solution, in waypoint order.
C21_SeedIsLastTwoSolutions ==
    InGetPathIK =>
        /\ \A n \in 1..Len(log) :
              /\ log[n].waypoint = n
              /\ Len(log[n].seed_state) = 2
              /\ log[n].seed_state[1] = SolutionOf(n - 1)
              /\ log[n].seed_state[2] = SolutionOf(n - 2)
              /\ log[n].error => n = Len(log)
        /\ Len(frame.path) = 1 + Cardinality(Solved)
        /\ frame.path[1] = frame.ik_seed_state
        /\ \A n \in Solved : frame.path[n + 1] = log[n].sol

\* three waypoints solved, with three different solutions that differ from the seed
C21_Witness ==
    /\ InGetPathIK
    /\ frame.pc = "done"
    /\ Len(log) = 3
    /\ Solved = {1, 2, 3}
    /\ Cardinality({frame.ik_seed_state, log[1].sol, log[2].sol, log[3].sol}) = 4
    /\ frame.last_valid_percentage = [num |-> 1, den |-> 1]

\* runPTPTrajectory is running or has returned
InRunPTPTrajectory == frame.name = "runPTPTrajectory"

\* the steps of runPTPTrajectory in the order of the code
StepOrder ==
    IF frame.for_gripper
    THEN <<"plan", "execute">>
    ELSE <<"plan", "checkTrajectory", "modifyPtpTrajectory", "execute">>

\* the steps taken so far, the polls of execute left out
StepsTaken == {n \in 1..Len(log) : log[n].call # "getCurrentRobotState"}

\* C22: runPTPTrajectory executes the trajectory only after planning succeeded and,
\* when not for the gripper, checkTrajectory and then modifyPtpTrajectory succeeded, in
\* this order; a step that fails is the last step taken and its error is returned
\* (TRAJECTORY_MODIFICATION_FAILED for the modification), so that nothing is executed.
C22_StepsInOrderStopAtFailure ==
    InRunPTPTrajectory =>
        /\ StepsTaken = 1..Cardinality(StepsTaken)
        /\ Cardinality(StepsTaken) <= Len(StepOrder)
        /\ \A n \in StepsTaken :
              /\ log[n].call = StepOrder[n]
              /\ failed(log[n].error_code) =>
                    /\ n = Len(log)
                    /\ frame.pc = "done"
                    /\ frame.ret = log[n].error_code
                    /\ log[n].call = "modifyPtpTrajectory" =>
                          frame.ret = "TRAJECTORY_MODIFICATION_FAILED"
              /\ log[n].call = "execute" =>
                    \A m \in 1..(n - 1) : ~failed(log[m].error_code)
        /\ frame.pc = "done" =>
              \E n \in StepsTaken : failed(log[n].error_code) \/ log[n].call = "execute"

\* the modification failed after a plan and a check that succeeded
C22_Witness ==
    /\ InRunPTPTrajectory
    /\ frame.pc = "done"
    /\ Len(log) = 3
    /\ log[3].call = "modifyPtpTrajectory"
    /\ frame.ret = "TRAJECTORY_MODIFICATION_FAILED"

\* the polls of the goal state execute has made
Polls == {n \in 1..Len(log) : log[n].call = "getCurrentRobotState"}

\* every joint is within the tolerance of the last trajectory point
Reached(deviation) ==
    \A n \in 1..NumTrajectoryJoints :
        -allowed_start_tolerance_ < deviation[n] /\ deviation[n] < allowed_start_tolerance_

\* move_group->execute has returned without a failure
Executed == \E n \in 1..Len(log) : log[n].call = "execute" /\ ~failed(log[n].error_code)

\* move_group->execute has returned a failure
ExecutionRefused == \E n \in 1..Len(log) : log[n].call = "execute" /\ failed(log[n].error_code)

ExecuteOutcome ==
    InRunPTPTrajectory =>
        /\ \A n \in Polls : /\ log[n].elapsed < TimeoutCycles
                            /\ Executed
                            /\ frame.group = MANIP_PLANNING_GROUP
        /\ (frame.pc = "done" /\ Executed /\ frame.group = MANIP_PLANNING_GROUP) =>
              /\ frame.ret \in {"SUCCESS", "EXECUTION_FAILED"}
              /\ frame.ret = "SUCCESS" <=> \E n \in Polls : Reached(log[n].deviation)
        /\ (frame.pc = "done" /\ Executed /\ frame.group # MANIP_PLANNING_GROUP) =>
              /\ frame.ret = "SUCCESS"
              /\ Polls = {}
        /\ ExecutionRefused =>
              /\ frame.pc = "done"
              /\ frame.ret = log[Len(log)].error_code
              /\ Polls = {}

\* C23: after a successful MoveIt execution for the manipulator group, execute returns
\* SUCCESS only if at some poll before the timeout every joint of the current state is
\* within allowed_start_tolerance_ of the last trajectory point, and EXECUTION_FAILED
\* otherwise; the polling loop always terminates; for any other group it returns SUCCESS
\* without a poll, and a failed MoveIt execution returns the converted error without a poll.
C23_ExecutePollsUntilReached ==
    /\ []ExecuteOutcome
    /\ (InRunPTPTrajectory /\ frame.pc = "poll") ~> (InRunPTPTrajectory /\ frame.pc = "done")

\* the goal state was reached at the third poll
C23_Witness ==
    /\ InRunPTPTrajectory
    /\ frame.pc = "done"
    /\ frame.ret = "SUCCESS"
    /\ Cardinality(Polls) = 3
    /\ \E n \in Polls : /\ Reached(log[n].deviation)
                        /\ \A m \in Polls : m < n => ~Reached(log[m].deviation)

\* moveRandom is running or has returned
InMoveRandom == frame.name = "moveRandom"

\* the last attempt moved the robot to its random pose
Moved == frame.last.motion = "SUCCESS"

\* the last attempt ended with a critical failure of runPTPTrajectory
Broke == frame.last.motion # "none" /\ isCriticalFailure(frame.last.motion)

\* the last attempt calls for another one: pose too close, pose in collision or without
\* an IK solution, or a motion failure that is not critical
Retry ==
    \/ frame.last.too_close
    \/ frame.last.collision \notin {"none", "SUCCESS"}
    \/ /\ frame.last.motion \notin {"none", "SUCCESS"}
       /\ ~isCriticalFailure(frame.last.motion)

MoveRandomOutcome ==
    InMoveRandom =>
        /\ frame.retry_counter <= MaxAttempts
        /\ frame.last.pose = frame.retry_counter
        /\ (frame.pc = "loop" /\ frame.retry_counter > 0) => (Moved \/ Retry)
        /\ frame.pc = "done" =>
              /\ frame.retry_counter > 0
              /\ Moved => /\ frame.ret = "SUCCESS"
                          /\ frame.resp.pose = frame.last.pose
              /\ Broke => /\ frame.ret = frame.last.motion
                          /\ frame.resp.pose = 0
              /\ Retry => /\ frame.ret = "NO_RANDOM_POSITION_FOUND"
                          /\ frame.retry_counter = MaxAttempts
                          /\ frame.resp.pose = 0
              /\ Moved \/ Broke \/ Retry

\* C24: moveRandom terminates after at most 30 attempts; it returns SUCCESS with
\* resp->pose set to the random pose of the attempt whose motion succeeded; it returns a
\* critical failure of runPTPTrajectory at once; it goes on to another attempt after a
\* pose that is too close or in collision and after a motion failure that is not
\* critical; and it returns NO_RANDOM_POSITION_FOUND with resp->pose unset when all 30
\* attempts failed.
C24_MoveRandomAtMostThirtyAttempts ==
    /\ []MoveRandomOutcome
    /\ InMoveRandom ~> (InMoveRandom /\ frame.pc = "done")

\* thirty attempts failed, the last one by a motion failure that is not critical
C24_Witness ==
    /\ InMoveRandom
    /\ frame.pc = "done"
    /\ frame.retry_counter = MaxAttempts
    /\ frame.ret = "NO_RANDOM_POSITION_FOUND"
    /\ frame.last.motion = "MOVEIT_PLANNING_FAILED"

\* a handler of the three services is running or has returned
InService == frame.name \in ServiceNames

\* the handler has returned
Served == InService /\ frame.pc = "done"

\* the calls of the helper made so far
CallsOf(helper) == {n \in 1..Len(log) : log[n].call = helper}

\* what endServiceCall returned
EndCode == log[CHOOSE n \in CallsOf("endServiceCall") : TRUE].error_code

\* error_code is a failure *neither* due to invalid input *nor* recoverable
Critical(error_code) ==
    /\ error_code # "SUCCESS"
    /\ ~isInvalidInput(error_code)
    /\ ~isRecoverableFailure(error_code)

C26_BeginThenEndOnce ==
    InService =>
        /\ Cardinality(CallsOf("beginServiceCall")) <= 1
        /\ Cardinality(CallsOf("endServiceCall")) <= 1
        /\ Len(log) > 0 => log[1].call = "beginServiceCall"
        /\ \A n \in CallsOf("endServiceCall") :
              /\ \E m \in CallsOf("beginServiceCall") : m < n
              /\ frame.pc = "done"
        /\ \A n \in 1..Len(log) : log[n].srv_name = frame.name
        /\ \A n \in CallsOf(GuardedAction[frame.name]) :
              /\ frame.before = "SUCCESS"
              /\ log[n - 1].call = "beginServiceCall"
              /\ log[n - 1].error_code = "SUCCESS"
              /\ \A m \in CallsOf("endServiceCall") : n < m
        /\ Cardinality(CallsOf(GuardedAction[frame.name])) <= 1
        /\ frame.resp.set => CallsOf(GuardedAction[frame.name]) # {}
        /\ frame.pc = "done" =>
              /\ Cardinality(CallsOf("beginServiceCall")) = 1
              /\ Cardinality(CallsOf("endServiceCall")) = 1
              /\ frame.ret = TRUE
              /\ CallsOf(GuardedAction[frame.name]) # {} <=> frame.before = "SUCCESS"

\* the permissions were missing: no action, and still one endServiceCall
C26_Witness ==
    /\ Served
    /\ frame.name = GET_POSE_SRV_NAME
    /\ log[1].error_code = "SUCCESS"
    /\ frame.before = "INSUFFICIENT_PERMISSION"
    /\ CallsOf("getCurrentPose") = {}
    /\ Cardinality(CallsOf("endServiceCall")) = 1

====
